---- MODULE Spec2Model ----
(***************************************************************************)
(* Model of the NDVI-by-category pipeline: stages 2, 5 and 6 of scripts.   *)
(*                                                                         *)
(* One run of the model is one run of one script; the variable prog says   *)
(* which: "s2pass" is one call of procesar_ndvi_por_categoria, "s2main"    *)
(* is main() of stage 2, "s5" is the band stacker, "s6" the MNC combiner.  *)
(*                                                                         *)
(* Conventions.  A raster band is a sequence of rows, each a sequence of   *)
(* pixel values, so pixel (r, c) of the code (0-based) is g[r+1][c+1].     *)
(* NDVI values are integers counting tenths (5 is 0.5); NaN is the float   *)
(* NaN and compares unequal to everything, itself included.  An optional   *)
(* value (Python None or a value) is a sequence of length 0 or 1.          *)
(* Affine transforms are north-up with square pixels: [a, c, f] stands     *)
(* for Affine(a, 0, c, 0, -a, f).                                          *)
(***************************************************************************)
EXTENDS Integers, Sequences, FiniteSets, TLC

\* ------------------------------------------------------------------ bounds
MaxH == 3
MaxW == 3
MaxChunk == 3
MaxFallos == 1

\* --------------------------------------------------------- numeric helpers
NaN == -1000

IsNaN(v) == v = NaN

\* IEEE comparison a != b: true when either side is NaN.
FloatNeq(a, b) == IsNaN(a) \/ IsNaN(b) \/ a # b

Min(a, b) == IF a <= b THEN a ELSE b

Max(a, b) == IF a >= b THEN a ELSE b

\* An exact fraction n/d in lowest terms with d > 0, as <<n, d>>.
Frac(n, d) ==
    LET RECURSIVE Gcd(_, _)
        Gcd(a, b) == IF b = 0 THEN a ELSE Gcd(b, a % b)
        g == Gcd(IF n < 0 THEN -n ELSE n, d)
    IN  IF n = 0 THEN <<0, 1>> ELSE <<n \div g, d \div g>>

RECURSIVE SumSeq(_)
SumSeq(s) == IF s = <<>> THEN 0 ELSE Head(s) + SumSeq(Tail(s))

\* The float NaN where a result is kept as a fraction.
NaNF == <<0, 0>>

\* np.mean of a non-empty list of finite samples.
Mean(valores) == Frac(SumSeq(valores), Len(valores))

InSeq(x, s) == \E k \in 1..Len(s) : s[k] = x

\* ---------------------------------------------------------------- windows
\* rasterio.windows.Window(col_off, row_off, width, height).  Offsets and
\* lengths are floats in rasterio; here they are numerators over off_den and
\* len_den, both 1 for a window built from integers.
Window(col_off, row_off, width, height) ==
    [col_off |-> col_off, row_off |-> row_off, off_den |-> 1,
     width |-> width, height |-> height, len_den |-> 1]

\* rasterio.windows.bounds(window, transform) -> (left, bottom, right, top)
WindowBounds(window, tr) ==
    [left   |-> tr.c + tr.a * window.col_off,
     bottom |-> tr.f - tr.a * (window.row_off + window.height),
     right  |-> tr.c + tr.a * (window.col_off + window.width),
     top    |-> tr.f - tr.a * window.row_off]

\* Easting/northing of the origin of each CRS in a common frame: the two
\* CRSs of the model differ by a datum shift.
CrsOrigin(crs) == IF crs = "EPSG:32721" THEN [x |-> 0, y |-> 0] ELSE [x |-> 2, y |-> -1]

\* A longitude brought into [-180, 180).
Envolver(x) == ((x + 180) % 360) - 180

\* rasterio.warp.transform_bounds(src_crs, dst_crs, left, bottom, right, top).
\* In a geographic destination CRS the x coordinates are longitudes: bounds
\* that cross the antimeridian come back with left > right.
transform_bounds(src_crs, dst_crs, b) ==
    LET dx == CrsOrigin(src_crs).x - CrsOrigin(dst_crs).x
        dy == CrsOrigin(src_crs).y - CrsOrigin(dst_crs).y
    IN  IF dst_crs = "EPSG:4326" /\ src_crs # dst_crs
        THEN [left |-> Envolver(b.left + dx), bottom |-> b.bottom + dy,
              right |-> Envolver(b.right + dx), top |-> b.top + dy]
        ELSE [left |-> b.left + dx, bottom |-> b.bottom + dy,
              right |-> b.right + dx, top |-> b.top + dy]

\* rasterio.windows.from_bounds(left, bottom, right, top, transform): the
\* float window of the bounds, lengths clamped at 0.
from_bounds(b, tr) ==
    [col_off |-> b.left - tr.c, row_off |-> tr.f - b.top, off_den |-> tr.a,
     width |-> Max(b.right - b.left, 0), height |-> Max(b.top - b.bottom, 0),
     len_den |-> tr.a]

\* Window.round_lengths(): int(floor(x + 0.5)) on width and height.
round_lengths(w) ==
    [w EXCEPT !.width = (2 * w.width + w.len_den) \div (2 * w.len_den),
              !.height = (2 * w.height + w.len_den) \div (2 * w.len_den),
              !.len_den = 1]

\* Window.round_offsets(): int(floor(x + 0.001)) on col_off and row_off.
round_offsets(w) ==
    [w EXCEPT !.col_off = (1000 * w.col_off + w.off_den) \div (1000 * w.off_den),
              !.row_off = (1000 * w.row_off + w.off_den) \div (1000 * w.off_den),
              !.off_den = 1]

\* rasterio.windows.intersect(w1, w2): a test, its result is a bool.
intersect(w1, w2) ==
    /\ ~(w1.row_off >= w2.row_off + w2.height \/ w1.row_off + w1.height <= w2.row_off)
    /\ ~(w1.col_off >= w2.col_off + w2.width \/ w1.col_off + w1.width <= w2.col_off)

\* A faulty read: the offsets of the window are not looked at.
ReadBlockEnOrigen(g, window) ==
    [r \in 1..window.height |-> [c \in 1..window.width |-> g[r][c]]]

\* dataset.read(1, window=window) for a window inside the band.
ReadBlock(g, window) ==
    [r \in 1..window.height |->
        [c \in 1..window.width |-> g[window.row_off + r][window.col_off + c]]]

InsideGrid(window, height, width) ==
    /\ window.col_off >= 0
    /\ window.row_off >= 0
    /\ window.col_off + window.width <= width
    /\ window.row_off + window.height <= height

\* rasterio.transform.from_bounds(west, south, east, north, width, height)
transform_from_bounds(b, width, height) ==
    [a |-> (b.right - b.left) \div width, c |-> b.left, f |-> b.top]

\* rasterio.warp.reproject(source, destination, src_transform, src_crs,
\* dst_transform, dst_crs, resampling) into a destination of the given shape,
\* for a float32 source without nodata, as GDAL's warp kernel computes it.
\* The destination is initialised to 0 (no nodata is passed, GDAL's default)
\* and a destination pixel is given a value when its centre falls in the
\* source block.  With Resampling.nearest the value is the source pixel
\* under the centre.  With Resampling.bilinear it is the mean of the 2 x 2
\* source pixels whose centres surround the centre, each weighted by the
\* product of its closeness in x and in y; the pixels of the four that lie
\* outside the block are left out and the weights of the others divided by
\* their sum; a NaN among the pixels taken makes the value NaN, whatever
\* its weight (0 * NaN is NaN).  This is the kernel GDAL applies when the
\* destination pixels are not coarser than the source pixels, which holds
\* for the rasters of the model.  The value is kept exact: a whole number
\* of tenths where the division is exact, a fraction otherwise.
reproject(source, src_tr, src_crs, rows, cols, dst_tr, dst_crs, resampling) ==
    LET dx == CrsOrigin(dst_crs).x - CrsOrigin(src_crs).x
        dy == CrsOrigin(dst_crs).y - CrsOrigin(src_crs).y
        \* doubled coordinates of the centre of destination pixel (r, c)
        X2(c) == 2 * dst_tr.c + dst_tr.a * (2 * c - 1) + 2 * dx
        Y2(r) == 2 * dst_tr.f - dst_tr.a * (2 * r - 1) + 2 * dy
        \* doubled distances of the centre from the left and the top edge
        \* of the source block, and the doubled size of a source pixel
        nx(c) == X2(c) - 2 * src_tr.c
        ny(r) == 2 * src_tr.f - Y2(r)
        d == 2 * src_tr.a
        scol(c) == nx(c) \div d + 1
        srow(r) == ny(r) \div d + 1
        \* bilinear: the first column and row of the 2 x 2 pixels, and the
        \* weight (over d) of column j and of row i
        col0(c) == (nx(c) - src_tr.a) \div d + 1
        row0(r) == (ny(r) - src_tr.a) \div d + 1
        wcol(c, j) == IF j = col0(c) THEN d - ((nx(c) - src_tr.a) % d)
                      ELSE (nx(c) - src_tr.a) % d
        wrow(r, i) == IF i = row0(r) THEN d - ((ny(r) - src_tr.a) % d)
                      ELSE (ny(r) - src_tr.a) % d
        dentro(i, j) == i \in 1..Len(source) /\ j \in 1..Len(source[1])
        vecinos(r, c) == <<<<row0(r), col0(c)>>, <<row0(r), col0(c) + 1>>,
                           <<row0(r) + 1, col0(c)>>, <<row0(r) + 1, col0(c) + 1>>>>
        peso(r, c, p) == IF dentro(p[1], p[2]) THEN wrow(r, p[1]) * wcol(c, p[2]) ELSE 0
        aporte(r, c, p) == IF dentro(p[1], p[2])
                           THEN wrow(r, p[1]) * wcol(c, p[2]) * source[p[1]][p[2]]
                           ELSE 0
        num(r, c) == SumSeq([k \in 1..4 |-> aporte(r, c, vecinos(r, c)[k])])
        den(r, c) == SumSeq([k \in 1..4 |-> peso(r, c, vecinos(r, c)[k])])
        bilinear(r, c) ==
            IF \E k \in 1..4 : /\ dentro(vecinos(r, c)[k][1], vecinos(r, c)[k][2])
                               /\ IsNaN(source[vecinos(r, c)[k][1]][vecinos(r, c)[k][2]])
            THEN NaN
            ELSE IF num(r, c) % den(r, c) = 0 THEN num(r, c) \div den(r, c)
            ELSE Frac(num(r, c), den(r, c))
    IN  [r \in 1..rows |->
            [c \in 1..cols |->
                IF /\ srow(r) \in 1..Len(source)
                   /\ scol(c) \in 1..Len(source[1])
                THEN IF resampling = "bilinear" THEN bilinear(r, c)
                     ELSE source[srow(r)][scol(c)]
                ELSE 0]]

\* ------------------------------------------------ stage 2: configuration
CHUNK_SIZE == 2000

EXCLUDE_VALUES == <<255, 0>>

\* ------------------------------------------------------ stage 2: one pass
\* A faulty count of windows: one more than the quotient, which is one too
\* many when chunk_size divides n.
NChunksDeMas(n, chunk_size) == n \div chunk_size + 1

NChunks(n, chunk_size) == (n + chunk_size - 1) \div chunk_size

\* Faulty window limits: every window but the first starts one row early,
\* on the last row of the window above it.
ChunkBoundsSolapado(ii, jj, chunk_size, height, width) ==
    [row_start |-> Max(ii * chunk_size - 1, 0),
     row_end   |-> Min((ii + 1) * chunk_size, height),
     col_start |-> jj * chunk_size,
     col_end   |-> Min((jj + 1) * chunk_size, width)]

\* row_start, row_end, col_start, col_end of window (i, j)
ChunkBounds(ii, jj, chunk_size, height, width) ==
    [row_start |-> ii * chunk_size,
     row_end   |-> Min((ii + 1) * chunk_size, height),
     col_start |-> jj * chunk_size,
     col_end   |-> Min((jj + 1) * chunk_size, width)]

necesita_reproyeccion(e) ==
    \/ e.inta_crs # e.ndvi_crs
    \/ Len(e.inta) # Len(e.ndvi)
    \/ Len(e.inta[1]) # Len(e.ndvi[1])

\* A faulty validity mask: the nodata value of the raster is not looked at.
NdviValidSinNodata(v, nodata) == ~IsNaN(v)

\* ndvi_valid: not NaN and, when the NDVI raster has a nodata, not nodata.
NdviValid(v, nodata) ==
    IF nodata # <<>> THEN ~IsNaN(v) /\ FloatNeq(v, nodata[1]) ELSE ~IsNaN(v)

\* The pixels of a block in the order of NumPy boolean indexing (row-major).
RECURSIVE Flatten(_)
Flatten(block) ==
    IF block = <<>> THEN <<>> ELSE Head(block) \o Flatten(Tail(block))

\* ndvi_chunk[mask] for mask = (inta_chunk == cat_val) & ndvi_valid, then the
\* second NaN filter.
NdviValues(inta_chunk, ndvi_chunk, cat_val, nodata) ==
    LET cats == Flatten(inta_chunk)
        vals == Flatten(ndvi_chunk)
        idx == {k \in 1..Len(cats) : cats[k] = cat_val /\ NdviValid(vals[k], nodata)}
        RECURSIVE Pick(_)
        Pick(k) ==
            IF k > Len(cats) THEN <<>>
            ELSE IF k \in idx /\ ~IsNaN(vals[k]) THEN <<vals[k]>> \o Pick(k + 1)
            ELSE Pick(k + 1)
    IN  Pick(1)

\* A faulty accumulation: the samples of a window replace those of the
\* windows before it.
ExtendReemplaza(resultados, cat_val, vals) ==
    IF cat_val \in DOMAIN resultados
    THEN [resultados EXCEPT ![cat_val] = vals]
    ELSE resultados @@ (cat_val :> vals)

\* resultados[cat_val].extend(vals) on a defaultdict(list): the key comes
\* into being with the first extend.
Extend(resultados, cat_val, vals) ==
    IF cat_val \in DOMAIN resultados
    THEN [resultados EXCEPT ![cat_val] = @ \o vals]
    ELSE resultados @@ (cat_val :> vals)

\* A faulty loop over categorias: resultados[cat_val] is touched for every
\* category, which creates the key on a defaultdict even without samples.
RECURSIVE AcumularCreaClave(_, _, _, _, _, _, _)
AcumularCreaClave(resultados, inta_chunk, ndvi_chunk, categorias, exclude_values, nodata, k) ==
    IF k > Len(categorias) THEN resultados
    ELSE LET cat_val == categorias[k]
             vals == NdviValues(inta_chunk, ndvi_chunk, cat_val, nodata)
             siguiente ==
                 IF InSeq(cat_val, exclude_values) THEN resultados
                 ELSE IF cat_val \in DOMAIN resultados
                 THEN [resultados EXCEPT ![cat_val] = @ \o vals]
                 ELSE resultados @@ (cat_val :> vals)
         IN  AcumularCreaClave(siguiente, inta_chunk, ndvi_chunk, categorias,
                               exclude_values, nodata, k + 1)

\* A faulty loop over categorias: the test "cat_val in exclude_values" is
\* missing.
RECURSIVE AcumularSinExcluir(_, _, _, _, _, _, _)
AcumularSinExcluir(resultados, inta_chunk, ndvi_chunk, categorias, exclude_values, nodata, k) ==
    IF k > Len(categorias) THEN resultados
    ELSE LET cat_val == categorias[k]
             vals == NdviValues(inta_chunk, ndvi_chunk, cat_val, nodata)
             siguiente ==
                 IF Len(vals) > 0 THEN Extend(resultados, cat_val, vals)
                 ELSE resultados
         IN  AcumularSinExcluir(siguiente, inta_chunk, ndvi_chunk, categorias,
                                exclude_values, nodata, k + 1)

\* The loop over categorias of one window.
RECURSIVE Acumular(_, _, _, _, _, _, _)
Acumular(resultados, inta_chunk, ndvi_chunk, categorias, exclude_values, nodata, k) ==
    IF k > Len(categorias) THEN resultados
    ELSE LET cat_val == categorias[k]
             vals == NdviValues(inta_chunk, ndvi_chunk, cat_val, nodata)
             siguiente ==
                 IF InSeq(cat_val, exclude_values) THEN resultados
                 ELSE IF Len(vals) > 0 THEN Extend(resultados, cat_val, vals)
                 ELSE resultados
         IN  Acumular(siguiente, inta_chunk, ndvi_chunk, categorias,
                      exclude_values, nodata, k + 1)

\* A faulty handler: the exception of the window is not caught.
ErrorVentanaPropagado(res) == [estado |-> "excepcion", log |-> FALSE, resultados |-> res]

\* The ways one window of the pass can end.
Procesada(res) == [estado |-> "procesada", log |-> FALSE, resultados |-> res]
Saltada(res) == [estado |-> "saltada", log |-> FALSE, resultados |-> res]
ErrorInterno(res) == [estado |-> "error_reproyeccion", log |-> TRUE, resultados |-> res]
ErrorVentana(res) == [estado |-> "error", log |-> TRUE, resultados |-> res]

\* Lines 188-198: the rounded NDVI window, clipped to the raster when it
\* is not inside it.  windows.intersect is a test and returns a bool, which
\* has no attribute width: the access raises AttributeError.
ClipNdviWindow(w1, height, width) ==
    IF InsideGrid(w1, height, width) THEN [fin |-> "ok", window |-> w1]
    ELSE IF "width" \notin DOMAIN [bool |-> intersect(w1, Window(0, 0, width, height))]
    THEN [fin |-> "error"]
    ELSE [fin |-> "saltada"]

\* A call that raises in a window: its name, and for the calls made once
\* per category or per band, which of them (0 otherwise).  SinFallo: no
\* call raises.
SinFallo == [llamada |-> "ninguna", n |-> 0]

\* Lines 163-198: the window of the NDVI raster under the bounds nb, or the
\* way the window ended.  falla is the call that raises in this window,
\* SinFallo for none.
NdviWindow(e, nb, falla) ==
    IF falla.llamada = "transform_bounds" THEN [fin |-> "error"]
    ELSE IF nb.left >= nb.right \/ nb.bottom >= nb.top THEN [fin |-> "saltada"]
    ELSE IF from_bounds(nb, e.ndvi_tr).width <= 0 \/ from_bounds(nb, e.ndvi_tr).height <= 0
    THEN [fin |-> "saltada"]
    ELSE ClipNdviWindow(round_offsets(round_lengths(from_bounds(nb, e.ndvi_tr))),
                        Len(e.ndvi), Len(e.ndvi[1]))

\* Lines 200-226: read the NDVI window and reproject it to the shape and
\* bounds wb of the reference window.  A window rounded to no column or no
\* row makes from_bounds divide by zero (ZeroDivisionError).
ReprojectNdvi(e, wb, rows, cols, ndvi_window, falla) ==
    IF falla.llamada \in {"read_ndvi", "reproject"} THEN [fin |-> "error"]
    ELSE IF ndvi_window.width = 0 \/ ndvi_window.height = 0 THEN [fin |-> "error"]
    ELSE [fin |-> "ok",
          ndvi_chunk |->
              reproject(ReadBlock(e.ndvi, ndvi_window),
                        transform_from_bounds(WindowBounds(ndvi_window, e.ndvi_tr),
                                              ndvi_window.width, ndvi_window.height),
                        e.ndvi_crs, rows, cols,
                        transform_from_bounds(wb, cols, rows), e.inta_crs, "bilinear")]

LocateThenReproject(e, wb, rows, cols, loc, falla) ==
    IF loc.fin # "ok" THEN loc
    ELSE ReprojectNdvi(e, wb, rows, cols, loc.window, falla)

\* Lines 160-234: the else branch of "if not necesita_reproyeccion" for the
\* reference window with bounds wb: the ndvi_chunk or the way the window
\* ended.
LocateAndReproject(e, wb, rows, cols, falla) ==
    LocateThenReproject(e, wb, rows, cols,
        NdviWindow(e, transform_bounds(e.inta_crs, e.ndvi_crs, wb), falla), falla)

\* The position in categorias at which the call falla raises in the loop of
\* lines 242-255, 0 when the loop makes fewer than falla.n such calls:
\* np.any (line 249) is called for every category that is not excluded,
\* tolist (line 255) for those of them with a sample in the window.
PosicionDeFalla(e, inta_chunk, ndvi_chunk, falla) ==
    LET ks == {k \in 1..Len(e.categorias) :
                  /\ ~InSeq(e.categorias[k], e.exclude)
                  /\ falla.llamada = "tolist" =>
                         Len(NdviValues(inta_chunk, ndvi_chunk,
                                        e.categorias[k], e.nodata)) > 0}
    IN  IF falla.llamada \in {"any", "tolist"} /\ falla.n \in 1..Cardinality(ks)
        THEN CHOOSE k \in ks : Cardinality({j \in ks : j <= k}) = falla.n
        ELSE 0

\* Lines 236-258 for the blocks of one window.  A failure of the masks of
\* lines 237-239 ("acumular") leaves resultados as it was; one in the loop
\* over categorias keeps what the categories before it extended, and one in
\* tolist also the key of its category, which resultados[cat_val] of line
\* 255 creates with an empty list before the argument of extend is
\* evaluated.  The handler of line 260 undoes nothing.
AcumularVentana(e, inta_chunk, ndvi_chunk, falla, resultados) ==
    IF falla.llamada = "acumular" THEN ErrorVentana(resultados)
    ELSE IF PosicionDeFalla(e, inta_chunk, ndvi_chunk, falla) > 0
    THEN LET kf == PosicionDeFalla(e, inta_chunk, ndvi_chunk, falla)
             antes == Acumular(resultados, inta_chunk, ndvi_chunk,
                               SubSeq(e.categorias, 1, kf - 1), e.exclude, e.nodata, 1)
         IN  ErrorVentana(IF falla.llamada = "tolist" /\ e.categorias[kf] \notin DOMAIN antes
                          THEN antes @@ (e.categorias[kf] :> <<>>)
                          ELSE antes)
    ELSE Procesada(Acumular(resultados, inta_chunk, ndvi_chunk,
                            e.categorias, e.exclude, e.nodata, 1))

\* Lines 157-258 with the outcome loc of the reprojection branch.
TrasReproyeccion(e, inta_chunk, loc, falla, resultados) ==
    IF loc.fin = "error" THEN ErrorInterno(resultados)
    ELSE IF loc.fin = "saltada" THEN Saltada(resultados)
    ELSE AcumularVentana(e, inta_chunk, loc.ndvi_chunk, falla, resultados)

\* Lines 147-258 for the reference window.
VentanaValida(e, window, falla, resultados) ==
    IF falla.llamada = "read_inta" THEN ErrorVentana(resultados)
    ELSE IF ~necesita_reproyeccion(e)
    THEN IF falla.llamada = "read_ndvi" THEN ErrorVentana(resultados)
         ELSE AcumularVentana(e, ReadBlock(e.inta, window), ReadBlock(e.ndvi, window),
                              falla, resultados)
    ELSE TrasReproyeccion(e, ReadBlock(e.inta, window),
             LocateAndReproject(e, WindowBounds(window, e.inta_tr),
                                window.height, window.width, falla),
             falla, resultados)

VentanaDe(e, b, falla, resultados) ==
    IF b.row_end <= b.row_start \/ b.col_end <= b.col_start THEN Saltada(resultados)
    ELSE VentanaValida(e, Window(b.col_start, b.row_start,
                                 b.col_end - b.col_start, b.row_end - b.row_start),
                       falla, resultados)

\* Lines 134-261: the body of the loop for window (ii, jj).
VentanaS2(e, chunk_size, ii, jj, falla, resultados) ==
    VentanaDe(e, ChunkBounds(ii, jj, chunk_size, Len(e.inta), Len(e.inta[1])),
              falla, resultados)

\* Lines 269-277: the means of the accumulated samples.
Promedios(resultados) ==
    [cat_val \in DOMAIN resultados |->
        IF Len(resultados[cat_val]) > 0 THEN Mean(resultados[cat_val]) ELSE NaNF]

\* The calls that can raise in a window of scenario e.
FallosS2(e) ==
    {[llamada |-> l, n |-> 0] :
        l \in IF necesita_reproyeccion(e)
              THEN {"read_inta", "transform_bounds", "read_ndvi", "reproject", "acumular"}
              ELSE {"read_inta", "read_ndvi", "acumular"}}
    \cup {[llamada |-> l, n |-> k] : l \in {"any", "tolist"}, k \in 1..Len(e.categorias)}

\* ------------------------------------------------------ inputs of a pass
\* Category codes found in the INTA rasters of the model (7 is in no QML).
Codigos == <<1, 0, 2, 255, 7>>

\* NDVI pixel values of the model, in tenths; -99 is the nodata of the
\* rasters that declare one.
Valores == <<5, NaN, 7, -99, 0, 3>>

IntaGrid(h, w) ==
    [r \in 1..h |-> [c \in 1..w |->
        Codigos[(((r - 1) * w + (c - 1) + h + w) % Len(Codigos)) + 1]]]

NdviGrid(h, w) ==
    [r \in 1..h |-> [c \in 1..w |->
        Valores[(((r - 1) * w + (c - 1) + h) % Len(Valores)) + 1]]]

\* End-to-end scenario A of the specification.
EscA ==
    [inta |-> << <<1, 1, 2, 2>>, <<1, 1, 2, 2>>, <<3, 3, 0, 0>>, <<3, 3, 0, 0>> >>,
     ndvi |-> << <<NaN, 5, 5, 5>>, <<5, 5, 5, 5>>, <<5, 5, 5, 5>>, <<5, 5, 5, 5>> >>,
     inta_crs |-> "EPSG:32721", ndvi_crs |-> "EPSG:32721",
     inta_tr |-> [a |-> 1, c |-> 0, f |-> 4], ndvi_tr |-> [a |-> 1, c |-> 0, f |-> 4],
     nodata |-> <<>>, categorias |-> <<0, 1, 2, 3>>, exclude |-> <<0>>]

\* Two co-registered rasters of h x w pixels.
EscCoreg(h, w, nodata) ==
    [inta |-> IntaGrid(h, w), ndvi |-> NdviGrid(h, w),
     inta_crs |-> "EPSG:32721", ndvi_crs |-> "EPSG:32721",
     inta_tr |-> [a |-> 1, c |-> 0, f |-> h], ndvi_tr |-> [a |-> 1, c |-> 0, f |-> h],
     nodata |-> nodata, categorias |-> <<0, 1, 2, 3, 255>>, exclude |-> EXCLUDE_VALUES]

\* A 2 x 3 INTA raster of 2 m pixels over x in [0, 6], y in [0, 4], and an
\* NDVI raster on another grid: larger ("mayor"), covering part of it
\* ("parcial"), disjoint from it ("fuera"), in another CRS ("otro_crs"),
\* of the same size and CRS with a shifted origin ("desplazado"), or larger
\* with the same origin and pixel size, hence the same transform
\* ("mismo_T").  In "grueso" the INTA raster has pixels of 3 m, over x in
\* [0, 9], y in [0, 6], and the NDVI raster 1 x 2 pixels of 7 m from the
\* same origin.  In "antimeridiano" the INTA raster lies over x in
\* [177, 183] and the NDVI raster, in the geographic CRS, covers it over
\* the longitudes 175 to 181: its last column is beyond the antimeridian.
\* In "fino" the INTA raster has pixels of 1 m, over x in [0, 3], y in
\* [0, 2], and the NDVI raster 1 x 2 pixels of 2 m from the same origin:
\* the centres of the INTA pixels lie between those of the NDVI pixels.
EscGeo(geo, nodata) ==
    [inta |-> IntaGrid(2, 3),
     inta_crs |-> "EPSG:32721",
     inta_tr |-> CASE geo = "grueso" -> [a |-> 3, c |-> 0, f |-> 6]
                   [] geo = "fino" -> [a |-> 1, c |-> 0, f |-> 2]
                   [] geo = "antimeridiano" -> [a |-> 2, c |-> 177, f |-> 4]
                   [] OTHER -> [a |-> 2, c |-> 0, f |-> 4],
     ndvi |-> CASE geo = "mayor" -> NdviGrid(4, 5)
                [] geo = "parcial" -> NdviGrid(2, 2)
                [] geo = "fuera" -> NdviGrid(2, 2)
                [] geo = "otro_crs" -> NdviGrid(2, 3)
                [] geo = "desplazado" -> NdviGrid(2, 3)
                [] geo = "mismo_T" -> NdviGrid(3, 4)
                [] geo = "grueso" -> << <<5, 7>> >>
                [] geo = "fino" -> << <<3, 7>> >>
                [] geo = "antimeridiano" -> NdviGrid(2, 3),
     ndvi_crs |-> IF geo \in {"otro_crs", "antimeridiano"} THEN "EPSG:4326" ELSE "EPSG:32721",
     ndvi_tr |-> CASE geo = "mayor" -> [a |-> 2, c |-> -2, f |-> 6]
                   [] geo = "parcial" -> [a |-> 2, c |-> 2, f |-> 4]
                   [] geo = "fuera" -> [a |-> 2, c |-> 20, f |-> 4]
                   [] geo = "otro_crs" -> [a |-> 2, c |-> -2, f |-> 5]
                   [] geo = "desplazado" -> [a |-> 2, c |-> 2, f |-> 4]
                   [] geo = "mismo_T" -> [a |-> 2, c |-> 0, f |-> 4]
                   [] geo = "grueso" -> [a |-> 7, c |-> 0, f |-> 6]
                   [] geo = "fino" -> [a |-> 2, c |-> 0, f |-> 2]
                   [] geo = "antimeridiano" -> [a |-> 2, c |-> 175, f |-> 5],
     nodata |-> nodata, categorias |-> <<0, 1, 2, 3, 255>>, exclude |-> EXCLUDE_VALUES]

Nodatas == {<<>>, <<-99>>}

EscenariosS2 ==
    {EscA}
    \cup {EscCoreg(h, w, nd) : h \in 1..MaxH, w \in 1..MaxW, nd \in Nodatas}
    \cup {EscGeo(g, nd) :
            g \in {"mayor", "parcial", "fuera", "otro_crs", "desplazado", "mismo_T",
                   "grueso", "fino", "antimeridiano"},
            nd \in Nodatas}

\* The window sizes a run is configured with.
ChunkSizes == (1..MaxChunk) \cup {CHUNK_SIZE}

Vacio == [x \in {} |-> <<>>]

\* --------------------------------------------------------- stage 2: main
\* The whole pass as main calls it: every window in loop order, then the
\* means.  It raises when one of the two rasters cannot be opened.
RECURSIVE PasoVentanas(_, _, _, _)
PasoVentanas(e, chunk_size, k, resultados) ==
    LET n_chunks_h == NChunks(Len(e.inta), chunk_size)
        n_chunks_w == NChunks(Len(e.inta[1]), chunk_size)
    IN  IF k >= n_chunks_h * n_chunks_w THEN resultados
        ELSE PasoVentanas(e, chunk_size, k + 1,
                 VentanaS2(e, chunk_size, k \div n_chunks_w, k % n_chunks_w,
                           SinFallo, resultados).resultados)

procesar_ndvi_por_categoria(e, chunk_size) ==
    Promedios(PasoVentanas(e, chunk_size, 0, Vacio))

\* Lines 296-297: [v for v in vals if v not in EXCLUDE_VALUES]
CategoriasValidas(vals) == SelectSeq(vals, LAMBDA v : ~InSeq(v, EXCLUDE_VALUES))

SeqToSet(s) == {s[k] : k \in 1..Len(s)}

\* promedios.get(cat, np.nan)
Get(d, cat) == IF cat \in DOMAIN d THEN d[cat] ELSE NaNF

\* The raster pair of one month of one season.
EscMes(inta, mes, categorias) ==
    [inta |-> inta.grid, inta_crs |-> inta.crs, inta_tr |-> inta.tr,
     ndvi |-> mes.grid, ndvi_crs |-> mes.crs, ndvi_tr |-> mes.tr,
     nodata |-> mes.nodata, categorias |-> categorias, exclude |-> EXCLUDE_VALUES]

\* Lines 318-337 (invierno) and 359-378 (verano): the try statement of one
\* month: the series after it and whether the call returned (ok) or raised.
\* The loops of lines 326-327 and 336-337 append once for every element of
\* categorias, twice to the series of a code the list holds twice.
MesTry(inta, mes, categorias, series, chunk_size) ==
    LET ok == inta.legible /\ mes.legible
        RECURSIVE Anotadas(_, _, _)
        Anotadas(s, proms, k) ==
            IF k > Len(categorias) THEN s
            ELSE Anotadas([s EXCEPT ![categorias[k]] =
                               Append(@, IF ok THEN Get(proms, categorias[k]) ELSE NaNF)],
                          proms, k + 1)
    IN  [series |-> Anotadas(series,
                             IF ok THEN procesar_ndvi_por_categoria(
                                            EscMes(inta, mes, categorias), chunk_size)
                             ELSE Vacio,
                             1),
         ok |-> ok]

\* ---------------------------------------------------------------- stage 5
\* str.replace(token, "") on a name kept as a sequence of tokens.
Replace(nombre, token) == SelectSeq(nombre, LAMBDA t : t # token)

\* Lines 48-51: the band name of a file, f"NDVI_{nombre}".
NombreBanda(archivo) == <<"NDVI_">> \o Replace(Replace(archivo.basename, "NDVI_"), ".tif")

\* sorted(glob.glob(...)): the files in ascending order of their names,
\* which differ in the period only.
\* The periods of the file names, in the order of their strings.
Periodos == <<"2023-06", "2023-07", "2023-08", "2023-09", "2023-10", "2023-11">>

Orden(periodo) == CHOOSE k \in 1..Len(Periodos) : Periodos[k] = periodo

RECURSIVE Sorted(_)
Sorted(archivos) ==
    IF archivos = {} THEN <<>>
    ELSE LET primero == CHOOSE x \in archivos :
                            \A y \in archivos : Orden(x.basename[2]) <= Orden(y.basename[2])
         IN  <<primero>> \o Sorted(archivos \ {primero})

\* Lines 93-96: data[data == nodata] = np.nan with the reference nodata, or
\* with the file's own when the reference has none.
NodataANaN(grid, ref_nodata, meta_nodata) ==
    LET nd == IF ref_nodata # <<>> THEN ref_nodata ELSE meta_nodata
    IN  [r \in 1..Len(grid) |-> [c \in 1..Len(grid[1]) |->
            IF nd # <<>> /\ ~FloatNeq(grid[r][c], nd[1]) THEN NaN ELSE grid[r][c]]]

\* The non-NaN values of pixel (r, c) along the band axis of the stack.
NoNaN(stack, r, c) ==
    LET RECURSIVE Desde(_)
        Desde(k) ==
            IF k > Len(stack) THEN <<>>
            ELSE IF IsNaN(stack[k][r][c]) THEN Desde(k + 1)
            ELSE <<stack[k][r][c]>> \o Desde(k + 1)
    IN  Desde(1)

RECURSIVE Insertar(_, _)
Insertar(x, s) ==
    IF s = <<>> THEN <<x>>
    ELSE IF x <= Head(s) THEN <<x>> \o s
    ELSE <<Head(s)>> \o Insertar(x, Tail(s))

RECURSIVE Ordenar(_)
Ordenar(s) == IF s = <<>> THEN <<>> ELSE Insertar(Head(s), Ordenar(Tail(s)))

\* np.nanmedian of the values of one pixel.
NanMedian(vals) ==
    LET o == Ordenar(vals)
        n == Len(o)
    IN  IF n = 0 THEN NaNF
        ELSE IF n % 2 = 1 THEN Frac(o[(n + 1) \div 2], 1)
        ELSE Frac(o[n \div 2] + o[n \div 2 + 1], 2)

\* np.nanmin and np.nanmax of the values of one pixel.
NanMin(vals) == IF vals = <<>> THEN NaNF ELSE Frac(Ordenar(vals)[1], 1)

NanMax(vals) == IF vals = <<>> THEN NaNF ELSE Frac(Ordenar(vals)[Len(vals)], 1)

\* The integer square root of n >= 0.
Isqrt(n) ==
    LET RECURSIVE IsqrtEntre(_, _)
        IsqrtEntre(lo, hi) ==
            LET mid == (lo + hi + 1) \div 2
            IN  IF lo >= hi THEN lo
                ELSE IF mid * mid <= n THEN IsqrtEntre(mid, hi)
                ELSE IsqrtEntre(lo, mid - 1)
    IN  IsqrtEntre(0, Min(n, 30000))

\* A faulty standard deviation: the sample one, which divides by n - 1.
NanStdMuestral(vals) ==
    LET n == Len(vals)
        varianza == Frac(n * SumSeq([k \in 1..n |-> vals[k] * vals[k]])
                            - SumSeq(vals) * SumSeq(vals), n * (n - 1))
        p == Isqrt(varianza[1])
        q == Isqrt(varianza[2])
    IN  IF n <= 1 THEN NaNF
        ELSE IF p * p = varianza[1] /\ q * q = varianza[2] THEN <<p, q>>
        ELSE <<varianza[1], varianza[2], 2>>

\* np.nanstd of the values of one pixel (population standard deviation):
\* the fraction <<p, q>> when the variance is the square of p/q, and
\* <<p, q, 2>>, the square root of p/q, when it is not.
NanStd(vals) ==
    LET n == Len(vals)
        varianza == Frac(n * SumSeq([k \in 1..n |-> vals[k] * vals[k]])
                            - SumSeq(vals) * SumSeq(vals), n * n)
        p == Isqrt(varianza[1])
        q == Isqrt(varianza[2])
    IN  IF n = 0 THEN NaNF
        ELSE IF p * p = varianza[1] /\ q * q = varianza[2] THEN <<p, q>>
        ELSE <<varianza[1], varianza[2], 2>>

\* Line 118: np.stack accepts arrays of one shape only.
MismaForma(datos) ==
    \A k \in 1..Len(datos) :
        /\ Len(datos[k]) = Len(datos[1])
        /\ Len(datos[k][1]) = Len(datos[1][1])

\* A reducer of NumPy applied along axis 0 to every pixel of the stack.
Reducir(reductor, stack) ==
    [r \in 1..Len(stack[1]) |-> [c \in 1..Len(stack[1][1]) |->
        CASE reductor = "nanmedian" -> NanMedian(NoNaN(stack, r, c))
          [] reductor = "nanmin" -> NanMin(NoNaN(stack, r, c))
          [] reductor = "nanmax" -> NanMax(NoNaN(stack, r, c))
          [] reductor = "nanstd" -> NanStd(NoNaN(stack, r, c))]]

\* A faulty band list: the data of the reducers in the order min, median,
\* max, sd under the names median, min, max, sd.
BandasFinalesDesordenadas(datos_rasters, nombres_validos) ==
    LET mediana == Reducir("nanmedian", datos_rasters)
        minimo == Reducir("nanmin", datos_rasters)
        maximo == Reducir("nanmax", datos_rasters)
        desviacion == Reducir("nanstd", datos_rasters)
        bandas_finales == <<minimo, mediana, maximo, desviacion>> \o datos_rasters
        nombres_finales == << <<"mediana">>, <<"min">>, <<"max">>, <<"sd">> >> \o nombres_validos
    IN  [k \in 1..Len(bandas_finales) |->
            [data |-> bandas_finales[k], description |-> nombres_finales[k]]]

\* Lines 117-166: the bands written to the output, in order, each with its
\* description.
BandasFinales(datos_rasters, nombres_validos) ==
    LET mediana == Reducir("nanmedian", datos_rasters)
        minimo == Reducir("nanmin", datos_rasters)
        maximo == Reducir("nanmax", datos_rasters)
        desviacion == Reducir("nanstd", datos_rasters)
        bandas_finales == <<mediana, minimo, maximo, desviacion>> \o datos_rasters
        nombres_finales == << <<"mediana">>, <<"min">>, <<"max">>, <<"sd">> >> \o nombres_validos
    IN  [k \in 1..Len(bandas_finales) |->
            [data |-> bandas_finales[k], description |-> nombres_finales[k]]]

\* ------------------------------------------------ stage 6: configuration
EXCLUDE_VALUES_6 == <<0, 255>>

\* --------------------------------------------------- stage 6: one window
RefBounds(ii, jj, chunk_size, ref_height, ref_width) ==
    [row_start |-> ii * chunk_size,
     row_end   |-> Min((ii + 1) * chunk_size, ref_height),
     col_start |-> jj * chunk_size,
     col_end   |-> Min((jj + 1) * chunk_size, ref_width)]

Zeros(rows, cols) == [r \in 1..rows |-> [c \in 1..cols |-> 0]]

\* Lines 171-197 (invierno) and 210-236 (verano) with the result of
\* windows.intersect, a bool, which has no attribute width: the access
\* raises AttributeError.
MncResample(ref, mnc, wb, rows, cols, w2, falla) ==
    IF "width" \notin DOMAIN w2 THEN [fin |-> "error"]
    ELSE IF w2.width > 0 /\ w2.height > 0
    THEN IF falla.llamada \in {"read_mnc", "reproject"} THEN [fin |-> "error"]
         ELSE [fin |-> "ok",
               chunk |-> reproject(ReadBlock(mnc.grid, w2),
                             transform_from_bounds(WindowBounds(w2, mnc.tr),
                                                   w2.width, w2.height),
                             mnc.crs, rows, cols,
                             transform_from_bounds(wb, cols, rows), ref.crs, "nearest")]
    ELSE [fin |-> "ok", chunk |-> Zeros(rows, cols)]

\* Lines 160-169 (invierno) and 199-208 (verano): what the code takes as
\* the window of the MNC raster under the bounds wb: the value of
\* windows.intersect, a bool.
MncWindow(ref, mnc, wb) ==
    [bool |-> intersect(
        round_offsets(round_lengths(
            from_bounds(transform_bounds(ref.crs, mnc.crs, wb), mnc.tr))),
        Window(0, 0, Len(mnc.grid[1]), Len(mnc.grid)))]

\* Lines 160-197 (invierno) and 199-236 (verano): the MNC block of the
\* reference window with bounds wb, resampled to the reference grid, or the
\* failure.
MncChunk(ref, mnc, wb, rows, cols, falla) ==
    IF falla.llamada = "transform_bounds" THEN [fin |-> "error"]
    ELSE MncResample(ref, mnc, wb, rows, cols, MncWindow(ref, mnc, wb), falla)

\* Lines 239-243: 1.0 where the MNC code is not excluded and not nodata.
BandaBinaria(chunk, nodata) ==
    [r \in 1..Len(chunk) |-> [c \in 1..Len(chunk[1]) |->
        IF /\ ~InSeq(chunk[r][c], EXCLUDE_VALUES_6)
           /\ (nodata = <<>> \/ FloatNeq(chunk[r][c], nodata[1]))
        THEN 1 ELSE 0]]

\* How a window of stage 6 ended, the blocks written to dst and what was
\* added to the two counters.
FinS6(estado, log, escritos, suma_inv, suma_ver) ==
    [estado |-> estado, log |-> log, escritos |-> escritos,
     suma_inv |-> suma_inv, suma_ver |-> suma_ver]

Escritura(k, b, data) == [banda |-> k, b |-> b, data |-> data]

\* Lines 253-258: the writes of the window, band after band.  When the
\* falla.n-th call of dst.write raises, the bands before it are written and
\* stay written; the counters were added to at lines 244 and 251.
Escribir(b, bandas_ndvi_chunk, banda_inv_chunk, banda_ver_chunk, suma_inv, suma_ver, falla) ==
    LET todas == [k \in 1..Len(bandas_ndvi_chunk) |-> Escritura(k, b, bandas_ndvi_chunk[k])]
                     \o <<Escritura(Len(bandas_ndvi_chunk) + 1, b, banda_inv_chunk),
                          Escritura(Len(bandas_ndvi_chunk) + 2, b, banda_ver_chunk)>>
    IN  IF falla.llamada = "write" /\ falla.n \in 1..Len(todas)
        THEN FinS6("error", TRUE, SubSeq(todas, 1, falla.n - 1), suma_inv, suma_ver)
        ELSE FinS6("escrita", FALSE, todas, suma_inv, suma_ver)

\* A faulty count: the summer counter is given the sum of the winter band.
ConVeranoCuentaInvierno(e, b, bandas_ndvi_chunk, banda_inv_chunk, suma_inv, ver, falla) ==
    IF ver.fin = "error" THEN FinS6("error", TRUE, <<>>, 0, 0)
    ELSE Escribir(b, bandas_ndvi_chunk, banda_inv_chunk,
                  BandaBinaria(ver.chunk, e.ver.nodata), suma_inv,
                  SumSeq(Flatten(banda_inv_chunk)), falla)

\* Lines 246-258 with the summer block.
ConVerano(e, b, bandas_ndvi_chunk, banda_inv_chunk, suma_inv, ver, falla) ==
    IF ver.fin = "error" THEN FinS6("error", TRUE, <<>>, 0, 0)
    ELSE Escribir(b, bandas_ndvi_chunk, banda_inv_chunk,
                  BandaBinaria(ver.chunk, e.ver.nodata), suma_inv,
                  SumSeq(Flatten(BandaBinaria(ver.chunk, e.ver.nodata))), falla)

\* Lines 199-258 with the winter band.
ConBandaInvierno(e, b, window, bandas_ndvi_chunk, banda_inv_chunk, falla) ==
    ConVerano(e, b, bandas_ndvi_chunk, banda_inv_chunk, SumSeq(Flatten(banda_inv_chunk)),
              MncChunk(e.ref, e.ver, WindowBounds(window, e.ref.tr),
                       window.height, window.width, falla),
              falla)

\* A faulty window: the bands of the NDVI combinado are written before the
\* MNC blocks are located.
ConInviernoEscribeAntes(e, b, window, bandas_ndvi_chunk, inv, falla) ==
    IF inv.fin = "error"
    THEN FinS6("error", TRUE,
               [k \in 1..Len(bandas_ndvi_chunk) |-> Escritura(k, b, bandas_ndvi_chunk[k])],
               0, 0)
    ELSE ConBandaInvierno(e, b, window, bandas_ndvi_chunk,
                          BandaBinaria(inv.chunk, e.inv.nodata), falla)

\* Lines 199-258 with the winter block.
ConInvierno(e, b, window, bandas_ndvi_chunk, inv, falla) ==
    IF inv.fin = "error" THEN FinS6("error", TRUE, <<>>, 0, 0)
    ELSE ConBandaInvierno(e, b, window, bandas_ndvi_chunk,
                          BandaBinaria(inv.chunk, e.inv.nodata), falla)

\* Lines 148-258 for the reference window.
VentanaRef(e, b, window, falla) ==
    IF falla.llamada = "read_ndvi" THEN FinS6("error", TRUE, <<>>, 0, 0)
    ELSE ConInvierno(e, b, window,
             [k \in 1..Len(e.ref.bandas) |-> ReadBlock(e.ref.bandas[k], window)],
             MncChunk(e.ref, e.inv, WindowBounds(window, e.ref.tr),
                      window.height, window.width, falla),
             falla)

VentanaRefDe(e, b, falla) ==
    IF b.row_end <= b.row_start \/ b.col_end <= b.col_start
    THEN FinS6("saltada", FALSE, <<>>, 0, 0)
    ELSE VentanaRef(e, b, Window(b.col_start, b.row_start,
                                 b.col_end - b.col_start, b.row_end - b.row_start), falla)

\* Lines 136-268: the body of the loop for window (ii, jj).
VentanaS6(e, chunk_size, ii, jj, falla) ==
    VentanaRefDe(e, RefBounds(ii, jj, chunk_size, Len(e.ref.bandas[1]),
                              Len(e.ref.bandas[1][1])), falla)

\* Lines 92-96: the names of the bands of the reference raster.
NombresBandas(ref) ==
    [k \in 1..Len(ref.bandas) |->
        IF ref.descriptions[k] # <<>> THEN ref.descriptions[k] ELSE <<"Banda_", k>>]

\* The calls that can raise in a window of stage 6.
FallosS6(e) ==
    {[llamada |-> l, n |-> 0] : l \in {"read_ndvi", "transform_bounds", "read_mnc", "reproject"}}
    \cup {[llamada |-> "write", n |-> k] : k \in 1..(Len(e.ref.bandas) + 2)}

\* ------------------------------------------------------ inputs of stage 6
\* An MNC raster relative to a reference raster of h x w pixels of 1 m with
\* its origin at (0, h): on the same grid ("igual"), larger ("mayor") or
\* disjoint from it ("fuera").
Mnc(geo, h, w, nodata) ==
    [grid |-> CASE geo = "igual" -> IntaGrid(h, w)
                [] geo = "mayor" -> IntaGrid(h + 2, w + 2)
                [] geo = "fuera" -> IntaGrid(1, 1),
     crs |-> "EPSG:32721",
     tr |-> CASE geo = "igual" -> [a |-> 1, c |-> 0, f |-> h]
              [] geo = "mayor" -> [a |-> 1, c |-> -1, f |-> h + 1]
              [] geo = "fuera" -> [a |-> 1, c |-> 50, f |-> h],
     nodata |-> nodata]

EscS6(h, w, geo, nodata) ==
    [ref |-> [bandas |-> <<NdviGrid(h, w), Zeros(h, w)>>,
              descriptions |-> << <<"mediana">>, <<>> >>,
              crs |-> "EPSG:32721", tr |-> [a |-> 1, c |-> 0, f |-> h]],
     inv |-> Mnc(geo, h, w, nodata),
     ver |-> Mnc("igual", h, w, <<>>)]

EscenariosS6 ==
    {EscS6(h, w, geo, nd) : h \in 1..MaxH, w \in 1..MaxW,
                            geo \in {"igual", "mayor", "fuera"}, nd \in {<<>>, <<255>>, <<7>>}}

\* --------------------------------------------------- inputs of main (2)
\* The NDVI file of one month: unreadable ("X") or one of two rasters on
\* the grid of the INTA rasters.
MesNdvi(variante) ==
    [legible |-> variante # "X",
     grid |-> IF variante = "A" THEN << <<5, 7>>, <<NaN, 3>> >>
              ELSE << <<-99, 0>>, <<7, 7>> >>,
     crs |-> "EPSG:32721", tr |-> [a |-> 1, c |-> 0, f |-> 2],
     nodata |-> IF variante = "A" THEN <<>> ELSE <<-99>>]

MaxMeses == 2

\* NDVI_FILES for n months, variante[k] saying what the k-th file is.
EscMain(variantes) ==
    [inta_inv |-> [legible |-> TRUE, grid |-> << <<1, 2>>, <<0, 1>> >>,
                   crs |-> "EPSG:32721", tr |-> [a |-> 1, c |-> 0, f |-> 2]],
     inta_ver |-> [legible |-> TRUE, grid |-> << <<2, 2>>, <<255, 7>> >>,
                   crs |-> "EPSG:32721", tr |-> [a |-> 1, c |-> 0, f |-> 2]],
     vals_inv |-> <<0, 1, 2, 3, 255>>,
     vals_ver |-> <<0, 1, 2, 255>>,
     ndvi_files |-> [k \in 1..Len(variantes) |-> MesNdvi(variantes[k])]]

\* The same files with QML files in which a code comes twice (the parser
\* keeps both, line 71).
EscMainRepetido(variantes) ==
    [EscMain(variantes) EXCEPT !.vals_inv = <<0, 1, 1, 2, 3, 255>>,
                               !.vals_ver = <<0, 2, 2, 7, 255>>]

EscenariosMain ==
    {EscMain(v) : v \in UNION {[1..n -> {"A", "B", "X"}] : n \in 0..MaxMeses}}
    \cup {EscMainRepetido(v) : v \in UNION {[1..n -> {"A", "B", "X"}] : n \in 1..MaxMeses}}

\* -------------------------------------------------------- inputs of stage 5
MaxArchivos == 3

\* The NDVI file of period p: unreadable ("X") or a raster, without ("A") or
\* with ("B") a nodata value, on the 2 x 2 grid of the others, or with a
\* nodata value and on a grid with another origin ("T"), in another CRS
\* ("C") or of another size ("D").
ArchivoNdvi(p, variante) ==
    [basename |-> <<"NDVI_", Periodos[p], ".tif">>,
     legible |-> variante # "X",
     grid |-> [r \in 1..(IF variante = "D" THEN 1 ELSE 2) |-> [c \in 1..2 |->
                 Valores[((2 * (r - 1) + (c - 1) + 2 * p + Len(variante)) % Len(Valores)) + 1]]],
     crs |-> IF variante = "C" THEN "EPSG:4326" ELSE "EPSG:32721",
     tr |-> IF variante = "T" THEN [a |-> 1, c |-> 7, f |-> 2] ELSE [a |-> 1, c |-> 0, f |-> 2],
     nodata |-> IF variante = "A" THEN <<>> ELSE <<-99>>]

VariantesS5 == {"A", "B", "X", "T", "C", "D"}

\* The two rasters of the worked example of the reducers: the second has
\* a pixel without data, given as NaN or as the nodata value.
ArchivosEjemplo(sin_dato, nodata) ==
    {[basename |-> <<"NDVI_", Periodos[1], ".tif">>, legible |-> TRUE,
      grid |-> << <<1, 2>>, <<3, 4>> >>,
      crs |-> "EPSG:32721", tr |-> [a |-> 1, c |-> 0, f |-> 2], nodata |-> nodata],
     [basename |-> <<"NDVI_", Periodos[2], ".tif">>, legible |-> TRUE,
      grid |-> << <<sin_dato, 2>>, <<3, 6>> >>,
      crs |-> "EPSG:32721", tr |-> [a |-> 1, c |-> 0, f |-> 2], nodata |-> nodata]}

EscenariosS5 ==
    {[glob |-> {ArchivoNdvi(p, v[p]) : p \in DOMAIN v}] :
        v \in UNION {[1..n -> VariantesS5] : n \in 0..MaxArchivos}}
    \cup {[glob |-> ArchivosEjemplo(NaN, <<>>)], [glob |-> ArchivosEjemplo(-99, <<-99>>)]}

\* ------------------------------------------------------------ stage 9
\* Lines 132-133 and 141-142: the band of a recorte as float32, with its
\* nodata value turned into NaN.
RecorteANaN(grid, nodata) ==
    [r \in 1..Len(grid) |-> [c \in 1..Len(grid[1]) |->
        IF nodata # <<>> /\ ~FloatNeq(grid[r][c], nodata[1]) THEN NaN ELSE grid[r][c]]]

\* Lines 68-71: the names of the bands of the NDVI combinado.
NombresBandasNdvi(ndvi) ==
    [k \in 1..Len(ndvi.bandas) |->
        IF ndvi.descriptions[k] # <<>> THEN ndvi.descriptions[k] ELSE <<"Banda_", k>>]

\* Lines 36-42: the required files that do not exist.
Faltantes(e) == {nombre \in {"ndvi", "inv", "ver"} : e[nombre] = <<>>}

\* Lines 108-112: the dimensions of a recorte differ from the reference.
DimensionesDistintas(e) ==
    \/ Len(e.inv[1].grid[1]) # Len(e.ndvi[1].bandas[1][1])
    \/ Len(e.inv[1].grid) # Len(e.ndvi[1].bandas[1])
    \/ Len(e.ver[1].grid[1]) # Len(e.ndvi[1].bandas[1][1])
    \/ Len(e.ver[1].grid) # Len(e.ndvi[1].bandas[1])

\* Lines 114-116: the CRS of a recorte differs from the reference.
CrsDistintos(e) == e.inv[1].crs # e.ndvi[1].crs \/ e.ver[1].crs # e.ndvi[1].crs

\* Lines 149-160: the bands of the NDVI combinado as read; a nodata value
\* that is not None is turned into NaN.
BandasNdviLeidas(ndvi) ==
    [k \in 1..Len(ndvi.bandas) |-> RecorteANaN(ndvi.bandas[k], ndvi.nodata)]

\* Lines 181-197: the bands written to the output, in order, each with its
\* description.
BandasFinales9(e) ==
    LET bandas_finales == <<RecorteANaN(e.inv[1].grid, e.inv[1].nodata),
                            RecorteANaN(e.ver[1].grid, e.ver[1].nodata)>>
                          \o BandasNdviLeidas(e.ndvi[1])
        nombres_finales == << <<"invierno">>, <<"verano">> >> \o NombresBandasNdvi(e.ndvi[1])
    IN  [k \in 1..Len(bandas_finales) |->
            [data |-> bandas_finales[k], description |-> nombres_finales[k]]]

\* ------------------------------------------------------ inputs of stage 9
\* 5_NDVI_combinado.tif: two bands of 2 x 2 pixels, without a nodata value,
\* with NaN or with a number as its nodata value.
NdviCombinado(nodata) ==
    [bandas |-> << << <<5, NaN>>, <<7, -99>> >>, << <<0, 3>>, <<-99, 5>> >> >>,
     descriptions |-> << <<"mediana">>, <<>> >>,
     crs |-> "EPSG:32721", tr |-> [a |-> 1, c |-> 0, f |-> 2],
     nodata |-> nodata]

\* A recorte raster: on the grid of the NDVI combinado without ("igual") or
\* with ("nodata") a nodata value, on a grid with another origin ("T"), in
\* another CRS ("C") or of another size ("D").
Recorte(variante) ==
    [grid |-> IF variante = "D" THEN << <<1, 255>> >> ELSE << <<1, 255>>, <<0, 2>> >>,
     crs |-> IF variante = "C" THEN "EPSG:4326" ELSE "EPSG:32721",
     tr |-> IF variante = "T" THEN [a |-> 1, c |-> 7, f |-> 2] ELSE [a |-> 1, c |-> 0, f |-> 2],
     nodata |-> IF variante = "nodata" THEN <<255>> ELSE <<>>]

Recortes == {<<>>} \cup {<<Recorte(v)>> : v \in {"igual", "nodata", "T", "C", "D"}}

EscenariosS9 ==
    {[ndvi |-> n, inv |-> ri, ver |-> rv] :
        n \in {<<>>} \cup {<<NdviCombinado(nd)>> : nd \in {<<>>, <<NaN>>, <<-99>>}},
        ri \in Recortes, rv \in Recortes}

\* ------------------------------------------------------ inputs of stage 3
\* Whether 2_ndvi_por_categoria.pkl and the two QML files exist.
EscenariosS3 == {[pkl |-> p, qml |-> q] : p \in BOOLEAN, q \in BOOLEAN}

\* ------------------------------------------------------------ stage 0
\* How many times the model lets the wait for the export task ask again.
MaxEsperas == 2

\* Lines 239-240: datetime.date(2023, 6, 1) and datetime.date(2024, 6, 1).
FECHA_INICIO == <<2023, 6, 1>>

FECHA_FIN == <<2024, 6, 1>>

\* The order of datetime.date: by year, then month, then day.
FechaLeq(a, b) ==
    \/ a[1] < b[1]
    \/ a[1] = b[1] /\ a[2] < b[2]
    \/ a[1] = b[1] /\ a[2] = b[2] /\ a[3] <= b[3]

\* Lines 245-248: the first day of the next month.
SiguienteMes(fecha) ==
    IF fecha[2] = 12 THEN <<fecha[1] + 1, 1, 1>> ELSE <<fecha[1], fecha[2] + 1, 1>>

\* Line 268: f"NDVI_{fecha.strftime('%Y-%m')}.tif", the month as two
\* digits.
NombreArchivoNdvi(fecha) ==
    <<"NDVI_", fecha[1], "-", fecha[2] \div 10, fecha[2] % 10, ".tif">>

\* Lines 265-273 and 99-140: the request of the NDVI image of one month,
\* with usar_export=False.  The search of the image may raise ("obtener":
\* the except clause prints and continues, no file is asked for) and the
\* download may fail ("descargar": descargar_imagen_gee prints and returns
\* None).  When getDownloadURL raises the error of a request over 50331648
\* bytes ("tamano", lines 132-136) the image is exported instead: nothing
\* has arrived when the export task starts.
Pedido(fecha, falla) ==
    [fecha |-> fecha,
     nombre_archivo |-> IF falla.llamada = "obtener" THEN <<>> ELSE NombreArchivoNdvi(fecha),
     usar_export |-> FALSE, esperas |-> 0,
     descargado |-> falla.llamada = "ninguna"]

\* Lines 280-295: the request of the image of 13 bands of January 2024,
\* f"Sentinel2_13bandas_{fecha_enero.strftime('%Y-%m-%d')}.tif", with
\* usar_export=True.  Nothing has arrived when the export task starts.
PedidoCompleta(falla) ==
    [fecha |-> <<2024, 1, 1>>,
     nombre_archivo |-> IF falla.llamada = "obtener" THEN <<>>
                        ELSE <<"Sentinel2_13bandas_", 2024, "-", 0, 1, "-", 0, 1, ".tif">>,
     usar_export |-> TRUE, esperas |-> 0,
     descargado |-> FALSE]

\* The calls that can raise for a request of stage 0; getDownloadURL
\* ("tamano") is called only without usar_export.
FallosS0(usar_export) ==
    {[llamada |-> l, n |-> 0] :
        l \in IF usar_export THEN {"obtener", "descargar"}
              ELSE {"obtener", "descargar", "tamano"}}

\* ------------------------------------ stage 2: the categories of a QML
\* Texts that the parser converts are sequences of characters, each the
\* number of its code point; None is <<>> and an attribute with text t is
\* <<t>>.
\* The position of the first ch in s, Len(s) + 1 when there is none.
Primera(ch, s) ==
    IF InSeq(ch, s)
    THEN CHOOSE k \in 1..Len(s) : s[k] = ch /\ \A m \in 1..(k - 1) : s[m] # ch
    ELSE Len(s) + 1

\* ord(ch) of a printable ASCII character other than the double quote
\* (34), the backslash (92) and the grave accent (96).
Ord(ch) ==
    LET desde35 == <<"#", "$", "%", "&", "'", "(", ")", "*", "+", ",", "-",
                     ".", "/", "0", "1", "2", "3", "4", "5", "6", "7", "8",
                     "9", ":", ";", "<", "=", ">", "?", "@", "A", "B", "C",
                     "D", "E", "F", "G", "H", "I", "J", "K", "L", "M", "N",
                     "O", "P", "Q", "R", "S", "T", "U", "V", "W", "X", "Y",
                     "Z", "[">>
        desde93 == <<"]", "^", "_">>
        desde97 == <<"a", "b", "c", "d", "e", "f", "g", "h", "i", "j", "k",
                     "l", "m", "n", "o", "p", "q", "r", "s", "t", "u", "v",
                     "w", "x", "y", "z", "{", "|", "}", "~">>
    IN  IF ch = " " THEN 32
        ELSE IF ch = "!" THEN 33
        ELSE IF InSeq(ch, desde35) THEN 34 + Primera(ch, desde35)
        ELSE IF InSeq(ch, desde93) THEN 92 + Primera(ch, desde93)
        ELSE 96 + Primera(ch, desde97)

\* The text written with the printable ASCII characters of s.
Texto(s) == [k \in 1..Len(s) |-> Ord(s[k])]

\* The decimal digits that int and float take are those of the Unicode
\* category Nd, which come in runs of ten, zero to nine: the code points of
\* the zeros (Unicode 14).
CerosNd ==
    {48, 1632, 1776, 1984, 2406, 2534, 2662, 2790, 2918, 3046, 3174, 3302,
     3430, 3558, 3664, 3792, 3872, 4160, 4240, 6112, 6160, 6470, 6608,
     6784, 6800, 6992, 7088, 7232, 7248, 42528, 43216, 43264, 43472, 43504,
     43600, 44016, 65296, 66720, 68912, 69734, 69872, 69942, 70096, 70384,
     70736, 70864, 71248, 71360, 71472, 71904, 72016, 72784, 73040, 73120,
     92768, 92864, 93008, 120782, 120792, 120802, 120812, 120822, 123200,
     123632, 125264, 130032}

\* The white space that int and float skip around a number: the
\* characters for which str.isspace holds, less the separators U+001C to
\* U+001F.
Blancos ==
    {9, 10, 11, 12, 13, 32, 133, 160, 5760} \cup (8192..8202)
    \cup {8232, 8233, 8239, 8287, 12288}

HexDigitos ==
    Texto(<<"0", "1", "2", "3", "4", "5", "6", "7", "8", "9", "a", "b", "c", "d", "e", "f">>)

\* A run of digits as int and float take it: one or more decimal digits
\* of any script, with single underscores between digits allowed.
SonDigitos(s) ==
    /\ s # <<>>
    /\ \A k \in 1..Len(s) :
          \/ \E z \in CerosNd : s[k] \in z..(z + 9)
          \/ s[k] = Ord("_") /\ 1 < k /\ k < Len(s) /\ s[k - 1] # Ord("_")

\* The number a run of digits writes in base ten, its underscores skipped;
\* a digit is worth its distance from the zero of its script.
RECURSIVE Decimal(_)
Decimal(s) ==
    IF s = <<>> THEN 0
    ELSE IF s[Len(s)] = Ord("_") THEN Decimal(SubSeq(s, 1, Len(s) - 1))
    ELSE 10 * Decimal(SubSeq(s, 1, Len(s) - 1))
             + (s[Len(s)] - CHOOSE z \in CerosNd : s[Len(s)] \in z..(z + 9))

\* The text without the white space around it, which int and float skip.
Strip(s) ==
    LET ks == {k \in 1..Len(s) : s[k] \notin Blancos}
    IN  IF ks = {} THEN <<>>
        ELSE SubSeq(s, CHOOSE k \in ks : \A m \in ks : k <= m,
                       CHOOSE k \in ks : \A m \in ks : m <= k)

\* int(text): white space around, an optional sign, a run of digits:
\* <<n>>, or <<>> for ValueError.  Exact for numbers below 2^31.
IntDe(s) ==
    LET cuerpo == IF Strip(s) # <<>> /\ Strip(s)[1] \in {Ord("-"), Ord("+")}
                  THEN Tail(Strip(s)) ELSE Strip(s)
        signo == IF Strip(s) # <<>> /\ Strip(s)[1] = Ord("-") THEN -1 ELSE 1
    IN  IF SonDigitos(cuerpo) THEN <<signo * Decimal(cuerpo)>> ELSE <<>>

\* Line 71, int(float(value)).  float takes white space around, an optional
\* sign, runs of digits before and after an optional point (one of them may
\* be missing) and an optional exponent, e or E with an optional sign and a
\* run of digits; int truncates toward zero: <<n>>.  <<>> stands for the
\* exception: ValueError for a text that is no number and for nan,
\* OverflowError for inf and infinity.  Exact for texts of at most 15
\* significant digits and numbers below 2^31, where the double nearest to
\* the decimal number has its integer part.
IntFloat(s) ==
    LET cuerpo == IF Strip(s) # <<>> /\ Strip(s)[1] \in {Ord("-"), Ord("+")}
                  THEN Tail(Strip(s)) ELSE Strip(s)
        signo == IF Strip(s) # <<>> /\ Strip(s)[1] = Ord("-") THEN -1 ELSE 1
        pe == Min(Primera(Ord("e"), cuerpo), Primera(Ord("E"), cuerpo))
        mantisa == SubSeq(cuerpo, 1, pe - 1)
        exponente == SubSeq(cuerpo, pe + 1, Len(cuerpo))
        p == Primera(Ord("."), mantisa)
        ent == SubSeq(mantisa, 1, p - 1)
        dec == SubSeq(mantisa, p + 1, Len(mantisa))
        digitos == SelectSeq(ent \o dec, LAMBDA ch : ch # Ord("_"))
        x == (IF pe <= Len(cuerpo) THEN IntDe(exponente)[1] ELSE 0)
                 - Len(SelectSeq(dec, LAMBDA ch : ch # Ord("_")))
        RECURSIVE Pot(_)
        Pot(n) == IF n = 0 THEN 1 ELSE 10 * Pot(n - 1)
    IN  IF /\ ent # <<>> \/ dec # <<>>
           /\ ent = <<>> \/ SonDigitos(ent)
           /\ dec = <<>> \/ SonDigitos(dec)
           /\ pe <= Len(cuerpo) => (exponente = Strip(exponente) /\ IntDe(exponente) # <<>>)
        THEN <<signo * (IF x >= 0 THEN Decimal(digitos) * Pot(x)
                        ELSE IF -x > Len(digitos) THEN 0
                        ELSE Decimal(digitos) \div Pot(-x))>>
        ELSE <<>>

RECURSIVE Split(_, _)
\* text.split(sep)
Split(s, sep) ==
    IF ~InSeq(sep, s) THEN <<s>>
    ELSE <<SubSeq(s, 1, Primera(sep, s) - 1)>>
             \o Split(SubSeq(s, Primera(sep, s) + 1, Len(s)), sep)

\* '{:02x}'.format(n): lower-case hexadecimal, padded with zeros to two
\* characters, the sign counted.
Formato02x(n) ==
    LET RECURSIVE Hex(_)
        Hex(m) ==
            IF m < 16 THEN <<HexDigitos[m + 1]>>
            ELSE Hex(m \div 16) \o <<HexDigitos[(m % 16) + 1]>>
    IN  IF n < 0 THEN <<Ord("-")>> \o Hex(-n)
        ELSE IF n < 16 THEN <<Ord("0")>> \o Hex(n)
        ELSE Hex(n)

\* "#888888"
GRIS == Texto(<<"#", "8", "8", "8", "8", "8", "8">>)

\* Lines 74-86: the colour kept for an item. A text with commas is split,
\* its first three parts go through int (ValueError for a part that is
\* no integer) and the format, which takes three numbers (IndexError with
\* fewer); the bare except turns both into "#888888".
HexColor(color) ==
    IF color = <<>> THEN GRIS
    ELSE IF color[1] # <<>> /\ color[1][1] = Ord("#") THEN color[1]
    ELSE IF InSeq(Ord(","), color[1])
    THEN LET rgb_split == Split(color[1], Ord(","))
             primeros == SubSeq(rgb_split, 1, Min(3, Len(rgb_split)))
         IN  IF \E k \in 1..Len(primeros) : IntDe(primeros[k]) = <<>> THEN GRIS
             ELSE IF Len(primeros) < 3 THEN GRIS
             ELSE <<Ord("#")>> \o Formato02x(IntDe(primeros[1])[1])
                          \o Formato02x(IntDe(primeros[2])[1])
                          \o Formato02x(IntDe(primeros[3])[1])
    ELSE GRIS

\* "if label and value": the attribute is there and is not the empty text.
Truthy(atributo) == atributo # <<>> /\ atributo[1] # <<>>

RECURSIVE RecorrerItems(_, _)
\* Lines 66-86: the loop over the item elements, from the triples ts kept
\* so far. A value that is no number raises ValueError out of the
\* function.
RecorrerItems(items, ts) ==
    IF items = <<>> THEN [fin |-> "ok", ts |-> ts]
    ELSE IF ~(Truthy(Head(items).label) /\ Truthy(Head(items).value))
    THEN RecorrerItems(Tail(items), ts)
    ELSE IF IntFloat(Head(items).value[1]) = <<>> THEN [fin |-> "excepcion"]
    ELSE RecorrerItems(Tail(items),
             Append(ts, <<IntFloat(Head(items).value[1])[1],
                          HexColor(Head(items).color),
                          Head(items).label[1]>>))

RECURSIVE OrdenarPorValor(_)
\* Line 89: sorted(..., key=lambda t: t[0]), a stable sort by the code.
OrdenarPorValor(ts) ==
    LET RECURSIVE Insertado(_, _)
        Insertado(t, s) ==
            IF s = <<>> THEN <<t>>
            ELSE IF s[1][1] <= t[1] THEN <<s[1]>> \o Insertado(t, Tail(s))
            ELSE <<t>> \o s
    IN  IF ts = <<>> THEN <<>>
        ELSE Insertado(ts[Len(ts)], OrdenarPorValor(SubSeq(ts, 1, Len(ts) - 1)))

\* Lines 89-92 with the triples kept: with none, zip(*z) is empty and the
\* unpacking into three names raises ValueError.
Desempaquetar(z) ==
    IF z = <<>> THEN [fin |-> "excepcion"]
    ELSE [fin |-> "ok",
          vals |-> [k \in 1..Len(z) |-> z[k][1]],
          labels |-> [k \in 1..Len(z) |-> z[k][3]],
          hex_colors |-> [k \in 1..Len(z) |-> z[k][2]]]

\* Lines 57-92: parsear_categorias_qml on the item elements of the file,
\* in document order.
parsear_categorias_qml(items) ==
    IF RecorrerItems(items, <<>>).fin # "ok" THEN [fin |-> "excepcion"]
    ELSE Desempaquetar(OrdenarPorValor(RecorrerItems(items, <<>>).ts))

\* An item element with its attributes label, value and color.
Item(label, value, color) == [label |-> label, value |-> value, color |-> color]

\* The item elements of the model.  Among the values and colours are
\* texts with white space and digits beyond ASCII: U+00A0 and U+2003
\* around "3", the Arabic-Indic digits U+0661 to U+0663, the full-width
\* "3.5", the extended Arabic-Indic U+06F3 and, before the "1" of a
\* colour, the zero width space U+200B, which is not white space for int.
\* Every character of the texts can stand in an attribute of an XML file.
ItemsEjemplo ==
    {Item(<< <<"Soja">> >>, <<Texto(<<"2">>)>>, <<Texto(<<"1", ",", "2", ",", "3">>)>>),
     Item(<< <<"Maiz">> >>, <<Texto(<<"1">>)>>,
          <<Texto(<<"#", "f", "f", "0", "0", "0", "0">>)>>),
     Item(<< <<"Trigo">> >>, <<Texto(<<"1", ".", "7">>)>>, <<>>),
     Item(<<>>, <<Texto(<<"3">>)>>, <<Texto(<<"#", "0", "0", "0", "0", "0", "0">>)>>),
     Item(<< <<"Girasol">> >>, << <<>> >>, <<>>),
     Item(<< <<"Cebada">> >>, <<Texto(<<"3">>)>>, <<Texto(<<"2", "5", "5", ",", "0">>)>>),
     Item(<< <<"Avena">> >>, <<Texto(<<"-", "0", ".", "5">>)>>,
          <<Texto(<<"r", "o", "j", "o">>)>>),
     Item(<< <<"Pastura">> >>, <<Texto(<<"x">>)>>, << <<>> >>),
     Item(<< <<"Mani">> >>, <<Texto(<<"1", "0">>)>>,
          <<Texto(<<"2", "5", "5", ",", "1", "6", ",", "0", ",", "2", "5", "5">>)>>),
     Item(<< <<"Sorgo">> >>, <<Texto(<<"4">>)>>, <<Texto(<<"a", ",", "b", ",", "c">>)>>),
     Item(<< <<"Colza">> >>, <<Texto(<<" ", "3", " ">>)>>,
          <<Texto(<<"1", ",", " ", "2", ",", " ", "3">>)>>),
     Item(<< <<"Arroz">> >>, <<Texto(<<"1", "e", "1">>)>>,
          <<Texto(<<"1", "_", "0", ",", "0", ",", "+", "5">>)>>),
     Item(<< <<"Lino">> >>, <<Texto(<<"2", "_", "5", "E", "-", "1">>)>>, <<>>),
     Item(<< <<"Papa">> >>, <<Texto(<<"i", "n", "f">>)>>, <<>>),
     Item(<< <<"Vicia">> >>, <<Texto(<<"1", "_", "_", "0">>)>>, <<>>),
     Item(<< <<"Alfalfa">> >>, << <<160, 51, 8195>> >>,
          << <<160, 1633, 44, 1634, 44, 1635>> >>),
     Item(<< <<"Centeno">> >>, << <<65299, 46, 65301>> >>, <<>>),
     Item(<< <<"Poroto">> >>, << <<1779>> >>, << <<8203, 49, 44, 50, 44, 51>> >>)}

MaxItems == 2

EscenariosQml ==
    {[items |-> s] : s \in UNION {[1..n -> ItemsEjemplo] : n \in 0..MaxItems}}

\* ------------------------------------------------------------------ state
VARIABLES
    prog,        \* the script this run executes
    pc,          \* where the script is
    esc,         \* the input files of the run
    chunk_size,  \* the configured window size
    i, j,        \* the indices of the window loop
    pbar,        \* the progress counter
    fallos,      \* number of calls that have raised so far
    visitas,     \* the windows visited so far, with how each ended
    resultados,  \* stage 2: the accumulator {categoria: [valores_ndvi]}
    promedios,   \* stage 2: the mapping the pass returns
    idx,         \* number of months (main) or files (stage 5) gone through
    ndvi_por_categoria_inv,  \* main: {cat: [mean of each month]}
    ndvi_por_categoria_ver,
    promedios_ligado,        \* main: whether the local promedios is bound
    guardado,    \* main: the pickled results, <<>> before they are saved
    dst,         \* stage 6: the blocks written to the output raster
    total_pixeles_inv,
    total_pixeles_ver,
    descripciones,   \* stage 6: the band descriptions set on dst
    datos_rasters,   \* stage 5: the rasters read
    archivos_validos,
    nombres_validos,
    salida,      \* stage 5: the bands written to the output raster
    fecha_actual,    \* stage 0: the date of the month enumeration
    meses,           \* stage 0: the dates enumerated
    pedidos      \* stage 0: the downloads asked for, with how each ended

varsBucle == <<i, j, pbar, fallos, visitas>>
varsPass == <<resultados, promedios>>
varsMain == <<ndvi_por_categoria_inv, ndvi_por_categoria_ver, promedios_ligado, guardado>>
varsS6 == <<dst, total_pixeles_inv, total_pixeles_ver, descripciones>>
varsS5 == <<datos_rasters, archivos_validos, nombres_validos, salida>>
varsS0 == <<fecha_actual, meses, pedidos>>
vars == <<prog, pc, esc, chunk_size, idx, varsBucle, varsPass, varsMain, varsS6, varsS5, varsS0>>

\* What every script starts from.
InitComun ==
    /\ i = 0
    /\ j = 0
    /\ pbar = 0
    /\ fallos = 0
    /\ visitas = <<>>
    /\ resultados = Vacio
    /\ promedios = Vacio
    /\ idx = 0
    /\ promedios_ligado = FALSE
    /\ guardado = <<>>
    /\ dst = <<>>
    /\ total_pixeles_inv = 0
    /\ total_pixeles_ver = 0
    /\ descripciones = <<>>
    /\ datos_rasters = <<>>
    /\ archivos_validos = <<>>
    /\ nombres_validos = <<>>
    /\ salida = <<>>
    /\ fecha_actual = FECHA_INICIO
    /\ meses = <<>>
    /\ pedidos = <<>>

InitS2Pass ==
    /\ prog = "s2pass"
    /\ pc = "ventanas"
    /\ esc \in EscenariosS2
    /\ chunk_size \in ChunkSizes
    /\ ndvi_por_categoria_inv = Vacio
    /\ ndvi_por_categoria_ver = Vacio
    /\ InitComun

\* Lines 289-304 of main: the valid categories and the empty series.
InitMain ==
    /\ prog = "s2main"
    /\ pc = "invierno"
    /\ esc \in EscenariosMain
    /\ chunk_size = CHUNK_SIZE
    /\ ndvi_por_categoria_inv = [cat \in SeqToSet(CategoriasValidas(esc.vals_inv)) |-> <<>>]
    /\ ndvi_por_categoria_ver = [cat \in SeqToSet(CategoriasValidas(esc.vals_ver)) |-> <<>>]
    /\ InitComun

InitS6 ==
    /\ prog = "s6"
    /\ pc = "ventanas"
    /\ esc \in EscenariosS6
    /\ chunk_size \in ChunkSizes
    /\ ndvi_por_categoria_inv = Vacio
    /\ ndvi_por_categoria_ver = Vacio
    /\ InitComun

InitS5 ==
    /\ prog = "s5"
    /\ pc = "referencia"
    /\ esc \in EscenariosS5
    /\ chunk_size = 0
    /\ ndvi_por_categoria_inv = Vacio
    /\ ndvi_por_categoria_ver = Vacio
    /\ InitComun

InitS9 ==
    /\ prog = "s9"
    /\ pc = "verificar"
    /\ esc \in EscenariosS9
    /\ chunk_size = 0
    /\ ndvi_por_categoria_inv = Vacio
    /\ ndvi_por_categoria_ver = Vacio
    /\ InitComun

InitS3 ==
    /\ prog = "s3"
    /\ pc = "verificar"
    /\ esc \in EscenariosS3
    /\ chunk_size = 0
    /\ ndvi_por_categoria_inv = Vacio
    /\ ndvi_por_categoria_ver = Vacio
    /\ InitComun

InitQml ==
    /\ prog = "qml"
    /\ pc = "parsear"
    /\ esc \in EscenariosQml
    /\ chunk_size = 0
    /\ ndvi_por_categoria_inv = Vacio
    /\ ndvi_por_categoria_ver = Vacio
    /\ InitComun

InitS0 ==
    /\ prog = "s0"
    /\ pc = "enumerando"
    /\ esc = <<>>
    /\ chunk_size = 0
    /\ ndvi_por_categoria_inv = Vacio
    /\ ndvi_por_categoria_ver = Vacio
    /\ InitComun

\* The failures a window step may inject.
Inyectables(posibles) ==
    {SinFallo} \cup (IF fallos < MaxFallos THEN posibles ELSE {})

\* The record of a visited window.
Visita(b, estado, log) ==
    [i |-> i, j |-> j, row_start |-> b.row_start, row_end |-> b.row_end,
     col_start |-> b.col_start, col_end |-> b.col_end, estado |-> estado, log |-> log]

\* A faulty loop body: the paths that update the counter themselves do
\* not leave the body by continue and reach its last line too.
AvancesSinContinue(estado) ==
    (IF estado \in {"saltada", "error_reproyeccion"} THEN 1 ELSE 0) + 1

\* The calls of pbar.update(1) on the path of the loop body that ends in
\* estado: the one before the continue of a skipped window (stage 2 lines
\* 143, 171, 182, 197, stage 6 line 144) or of the inner handler (stage 2
\* line 233), and the one of the last line of the body (stage 2 line 263,
\* stage 6 line 270), which a continue does not reach.
Avances(estado) ==
    (IF estado \in {"saltada", "error_reproyeccion"} THEN 1 ELSE 0)
    + (IF estado \in {"saltada", "error_reproyeccion"} THEN 0 ELSE 1)

\* The two nested for loops: the indices after window (i, j), and whether
\* (i, j) was the last window.
Avanza(n_chunks_h, n_chunks_w) ==
    /\ i' = IF j + 1 < n_chunks_w THEN i ELSE i + 1
    /\ j' = IF j + 1 < n_chunks_w THEN j + 1 ELSE 0
    /\ pc' = IF j + 1 >= n_chunks_w /\ i + 1 >= n_chunks_h THEN "fin_bucle" ELSE "ventanas"

\* One iteration of the window loop of procesar_ndvi_por_categoria.
S2Ventana ==
    /\ prog = "s2pass"
    /\ pc = "ventanas"
    /\ \E falla \in Inyectables(FallosS2(esc)) :
      \E r \in {VentanaS2(esc, chunk_size, i, j, falla, resultados)} :
         LET height == Len(esc.inta)
             width == Len(esc.inta[1])
         IN  /\ resultados' = r.resultados
             /\ visitas' = Append(visitas,
                    Visita(ChunkBounds(i, j, chunk_size, height, width), r.estado, r.log))
             /\ pbar' = pbar + Avances(r.estado)
             /\ fallos' = IF falla.llamada = "ninguna" THEN fallos ELSE fallos + 1
             /\ Avanza(NChunks(height, chunk_size), NChunks(width, chunk_size))
    /\ UNCHANGED <<varsS0, prog, esc, chunk_size, idx, promedios, varsMain, varsS6, varsS5>>

\* After the loop: the means are computed and returned.
S2Finalizar ==
    /\ prog = "s2pass"
    /\ pc = "fin_bucle"
    /\ promedios' = Promedios(resultados)
    /\ pc' = "retornado"
    /\ UNCHANGED <<varsS0, prog, esc, chunk_size, idx, varsBucle, resultados, varsMain, varsS6, varsS5>>

\* "del promedios" after the try statement of a month: it raises
\* UnboundLocalError, which ends main, when the name is unbound.
DelPromedios(t, ligado) ==
    [series |-> t.series,
     pc |-> IF ligado THEN pc ELSE "abortado",
     idx |-> IF ligado THEN idx + 1 ELSE idx]

\* One iteration of a month loop of main: the try statement, then
\* "del promedios".
MesPaso(inta, categorias, series) ==
    DelPromedios(MesTry(inta, esc.ndvi_files[idx + 1], categorias, series, chunk_size),
                 MesTry(inta, esc.ndvi_files[idx + 1], categorias, series, chunk_size).ok
                    \/ promedios_ligado)

MainMesInvierno ==
    /\ prog = "s2main"
    /\ pc = "invierno"
    /\ idx < Len(esc.ndvi_files)
    /\ \E p \in {MesPaso(esc.inta_inv, CategoriasValidas(esc.vals_inv), ndvi_por_categoria_inv)} :
           /\ ndvi_por_categoria_inv' = p.series
           /\ pc' = p.pc
           /\ idx' = p.idx
    /\ promedios_ligado' = FALSE
    /\ UNCHANGED <<varsS0, prog, esc, chunk_size, varsBucle, varsPass, ndvi_por_categoria_ver,
                   guardado, varsS6, varsS5>>

\* Lines 343-354: the winter loop is over, the summer loop starts.
MainFinInvierno ==
    /\ prog = "s2main"
    /\ pc = "invierno"
    /\ idx = Len(esc.ndvi_files)
    /\ pc' = "verano"
    /\ idx' = 0
    /\ UNCHANGED <<varsS0, prog, esc, chunk_size, varsBucle, varsPass, varsMain, varsS6, varsS5>>

MainMesVerano ==
    /\ prog = "s2main"
    /\ pc = "verano"
    /\ idx < Len(esc.ndvi_files)
    /\ \E p \in {MesPaso(esc.inta_ver, CategoriasValidas(esc.vals_ver), ndvi_por_categoria_ver)} :
           /\ ndvi_por_categoria_ver' = p.series
           /\ pc' = p.pc
           /\ idx' = p.idx
    /\ promedios_ligado' = FALSE
    /\ UNCHANGED <<varsS0, prog, esc, chunk_size, varsBucle, varsPass, ndvi_por_categoria_inv,
                   guardado, varsS6, varsS5>>

\* Lines 384-431: the summer loop is over, the results are pickled.
MainGuardar ==
    /\ prog = "s2main"
    /\ pc = "verano"
    /\ idx = Len(esc.ndvi_files)
    /\ guardado' = <<[invierno |-> [categorias |-> CategoriasValidas(esc.vals_inv),
                                    vals |-> esc.vals_inv,
                                    ndvi_por_categoria |-> ndvi_por_categoria_inv],
                      verano |-> [categorias |-> CategoriasValidas(esc.vals_ver),
                                  vals |-> esc.vals_ver,
                                  ndvi_por_categoria |-> ndvi_por_categoria_ver]]>>
    /\ pc' = "terminado"
    /\ UNCHANGED <<varsS0, prog, esc, chunk_size, idx, varsBucle, varsPass, ndvi_por_categoria_inv,
                   ndvi_por_categoria_ver, promedios_ligado, varsS6, varsS5>>

\* One iteration of the window loop of stage 6.
S6Ventana ==
    /\ prog = "s6"
    /\ pc = "ventanas"
    /\ \E falla \in Inyectables(FallosS6(esc)) :
      \E r \in {VentanaS6(esc, chunk_size, i, j, falla)} :
         LET ref_height == Len(esc.ref.bandas[1])
             ref_width == Len(esc.ref.bandas[1][1])
         IN  /\ dst' = dst \o r.escritos
             /\ total_pixeles_inv' = total_pixeles_inv + r.suma_inv
             /\ total_pixeles_ver' = total_pixeles_ver + r.suma_ver
             /\ visitas' = Append(visitas,
                    Visita(RefBounds(i, j, chunk_size, ref_height, ref_width), r.estado, r.log))
             /\ pbar' = pbar + Avances(r.estado)
             /\ fallos' = IF falla.llamada = "ninguna" THEN fallos ELSE fallos + 1
             /\ Avanza(NChunks(ref_height, chunk_size), NChunks(ref_width, chunk_size))
    /\ UNCHANGED <<varsS0, prog, esc, chunk_size, idx, varsPass, varsMain, descripciones, varsS5>>

\* Lines 276-279: after the loop the band descriptions are set.
S6Descripciones ==
    /\ prog = "s6"
    /\ pc = "fin_bucle"
    /\ descripciones' = NombresBandas(esc.ref) \o << <<"invierno">>, <<"verano">> >>
    /\ pc' = "terminado"
    /\ UNCHANGED <<varsS0, prog, esc, chunk_size, idx, varsBucle, varsPass, varsMain,
                   dst, total_pixeles_inv, total_pixeles_ver, varsS5>>

\* Lines 29-63: the sorted file list and the read of the first raster,
\* outside any try: an empty list or an unreadable first file ends the
\* script with a traceback.
S5Referencia ==
    /\ prog = "s5"
    /\ pc = "referencia"
    /\ LET todos_archivos == Sorted(esc.glob)
       IN  pc' = IF todos_archivos = <<>> THEN "abortado"
                 ELSE IF ~todos_archivos[1].legible THEN "abortado"
                 ELSE "leyendo"
    /\ UNCHANGED <<varsS0, prog, esc, chunk_size, idx, varsBucle, varsPass, varsMain, varsS6, varsS5>>

\* A faulty read loop: the band name is recorded before the read is tried.
S5LeerNombraAntes ==
    /\ prog = "s5"
    /\ pc = "leyendo"
    /\ idx < Len(Sorted(esc.glob))
    /\ LET todos_archivos == Sorted(esc.glob)
           archivo == todos_archivos[idx + 1]
           ref_nodata == todos_archivos[1].nodata
       IN  /\ nombres_validos' = Append(nombres_validos, NombreBanda(archivo))
           /\ IF archivo.legible
              THEN /\ datos_rasters' = Append(datos_rasters,
                                              NodataANaN(archivo.grid, ref_nodata, archivo.nodata))
                   /\ archivos_validos' = Append(archivos_validos, archivo.basename)
              ELSE UNCHANGED <<datos_rasters, archivos_validos>>
    /\ idx' = idx + 1
    /\ UNCHANGED <<varsS0, prog, pc, esc, chunk_size, varsBucle, varsPass, varsMain, varsS6, salida>>

\* Lines 82-104: one iteration of the read loop.
S5Leer ==
    /\ prog = "s5"
    /\ pc = "leyendo"
    /\ idx < Len(Sorted(esc.glob))
    /\ LET todos_archivos == Sorted(esc.glob)
           archivo == todos_archivos[idx + 1]
           ref_nodata == todos_archivos[1].nodata
       IN  IF archivo.legible
           THEN /\ datos_rasters' = Append(datos_rasters,
                                           NodataANaN(archivo.grid, ref_nodata, archivo.nodata))
                /\ archivos_validos' = Append(archivos_validos, archivo.basename)
                /\ nombres_validos' = Append(nombres_validos, NombreBanda(archivo))
           ELSE UNCHANGED <<datos_rasters, archivos_validos, nombres_validos>>
    /\ idx' = idx + 1
    /\ UNCHANGED <<varsS0, prog, pc, esc, chunk_size, varsBucle, varsPass, varsMain, varsS6, salida>>

\* Lines 106-166: exit(1) when nothing was read, the ValueError of np.stack
\* when the rasters read differ in shape, else the reducers and the output
\* raster.
S5Combinar ==
    /\ prog = "s5"
    /\ pc = "leyendo"
    /\ idx = Len(Sorted(esc.glob))
    /\ IF datos_rasters = <<>>
       THEN /\ pc' = "exit1"
            /\ salida' = salida
       ELSE IF ~MismaForma(datos_rasters)
       THEN /\ pc' = "abortado"
            /\ salida' = salida
       ELSE /\ pc' = "terminado"
            /\ salida' = BandasFinales(datos_rasters, nombres_validos)
    /\ UNCHANGED <<varsS0, prog, esc, chunk_size, idx, varsBucle, varsPass, varsMain, varsS6,
                   datos_rasters, archivos_validos, nombres_validos>>

\* Stage 9, lines 32-42: exit(1) at the first required file that does not
\* exist.
S9Verificar ==
    /\ prog = "s9"
    /\ pc = "verificar"
    /\ pc' = IF Faltantes(esc) # {} THEN "exit1" ELSE "parametros"
    /\ UNCHANGED <<varsS0, prog, esc, chunk_size, idx, varsBucle, varsPass, varsMain, varsS6, varsS5>>

\* Stage 9, lines 51-118: the parameters of the three rasters are read and
\* the dimensions, then the CRS, of the recortes are compared with those of
\* the NDVI combinado; the transforms are read and not compared.
S9Parametros ==
    /\ prog = "s9"
    /\ pc = "parametros"
    /\ pc' = IF DimensionesDistintas(esc) THEN "exit1"
             ELSE IF CrsDistintos(esc) THEN "exit1"
             ELSE "leyendo"
    /\ UNCHANGED <<varsS0, prog, esc, chunk_size, idx, varsBucle, varsPass, varsMain, varsS6, varsS5>>

\* Stage 9, lines 127-229: the bands are read and written. When the NDVI
\* combinado has no nodata value, line 156 evaluates np.isnan(None), which
\* raises TypeError before the output is opened.
S9Combinar ==
    /\ prog = "s9"
    /\ pc = "leyendo"
    /\ IF esc.ndvi[1].nodata = <<>>
       THEN /\ pc' = "abortado"
            /\ salida' = salida
       ELSE /\ pc' = "terminado"
            /\ salida' = BandasFinales9(esc)
    /\ UNCHANGED <<varsS0, prog, esc, chunk_size, idx, varsBucle, varsPass, varsMain, varsS6,
                   datos_rasters, archivos_validos, nombres_validos>>

\* Stage 3, lines 19-46: exit(1) when the pickled results do not exist,
\* else they are loaded.
S3Cargar ==
    /\ prog = "s3"
    /\ pc = "verificar"
    /\ pc' = IF ~esc.pkl THEN "exit1" ELSE "cargado"
    /\ UNCHANGED <<varsS0, prog, esc, chunk_size, idx, varsBucle, varsPass, varsMain, varsS6, varsS5>>

\* Stage 3, lines 86-168: the QML files are parsed, outside any check, and
\* the figure is drawn and saved by plt.savefig: a QML file that does not
\* exist ends the script with the traceback of FileNotFoundError.  With the
\* figure saved the script is at plt.show() of line 170.
S3Graficar ==
    /\ prog = "s3"
    /\ pc = "cargado"
    /\ IF ~esc.qml
       THEN /\ pc' = "abortado"
            /\ salida' = salida
       ELSE /\ pc' = "mostrando"
            /\ salida' = << <<"3_evolucion_ndvi_por_categoria.png">> >>
    /\ UNCHANGED <<varsS0, prog, esc, chunk_size, idx, varsBucle, varsPass, varsMain, varsS6,
                   datos_rasters, archivos_validos, nombres_validos>>

\* Stage 3, lines 170-203: plt.show() returns, at once with a backend
\* without windows and when the window of the figure is closed otherwise,
\* and the summary of the series is printed to the end of the script.
S3Mostrar ==
    /\ prog = "s3"
    /\ pc = "mostrando"
    /\ pc' = "terminado"
    /\ UNCHANGED <<varsS0, prog, esc, chunk_size, idx, varsBucle, varsPass, varsMain, varsS6,
                   varsS5>>

\* Stage 0, lines 242-248: one iteration of the while loop that enumerates
\* the months.
S0Enumerar ==
    /\ prog = "s0"
    /\ pc = "enumerando"
    /\ FechaLeq(fecha_actual, FECHA_FIN)
    /\ meses' = Append(meses, fecha_actual)
    /\ fecha_actual' = SiguienteMes(fecha_actual)
    /\ UNCHANGED <<pedidos, prog, pc, esc, chunk_size, idx, varsBucle, varsPass, varsMain,
                   varsS6, varsS5>>

\* Stage 0, lines 242-250: the while loop is over.
S0FinEnumerar ==
    /\ prog = "s0"
    /\ pc = "enumerando"
    /\ ~FechaLeq(fecha_actual, FECHA_FIN)
    /\ pc' = "descargando"
    /\ UNCHANGED <<varsS0, prog, esc, chunk_size, idx, varsBucle, varsPass, varsMain,
                   varsS6, varsS5>>

\* Stage 0, lines 252-273: one iteration of the for loop over the months,
\* up to its end or, when the image is too large for getDownloadURL, up to
\* the start of the export task (lines 132-136 and 146-165).
S0Descargar ==
    /\ prog = "s0"
    /\ pc = "descargando"
    /\ idx < Len(meses)
    /\ \E falla \in Inyectables(FallosS0(FALSE)) :
          /\ pedidos' = Append(pedidos, Pedido(meses[idx + 1], falla))
          /\ fallos' = IF falla.llamada = "ninguna" THEN fallos ELSE fallos + 1
          /\ pc' = IF falla.llamada = "tamano" THEN "exportando" ELSE "descargando"
    /\ idx' = idx + 1
    /\ UNCHANGED <<fecha_actual, meses, prog, esc, chunk_size, i, j, pbar, visitas,
                   varsPass, varsMain, varsS6, varsS5>>

\* Stage 0, lines 275-295 and 146-165: after the months, the full
\* Sentinel-2 image of January 2024 is asked for, inside its own try.  When
\* the search of the image or the start of the export raises, the error is
\* printed and main ends; otherwise the export task runs.
S0Completa ==
    /\ prog = "s0"
    /\ pc = "descargando"
    /\ idx = Len(meses)
    /\ \E falla \in Inyectables(FallosS0(TRUE)) :
          /\ pedidos' = Append(pedidos, PedidoCompleta(falla))
          /\ fallos' = IF falla.llamada = "ninguna" THEN fallos ELSE fallos + 1
          /\ pc' = IF falla.llamada = "ninguna" THEN "exportando" ELSE "terminado"
    /\ UNCHANGED <<fecha_actual, meses, prog, esc, chunk_size, idx, i, j, pbar, visitas,
                   varsPass, varsMain, varsS6, varsS5>>

\* Stage 0, lines 169-176: the export task of the request made last is
\* still active; main sleeps 10 seconds and asks again.
S0Esperar ==
    /\ prog = "s0"
    /\ pc = "exportando"
    /\ pedidos[Len(pedidos)].esperas < MaxEsperas
    /\ pedidos' = [pedidos EXCEPT ![Len(pedidos)].esperas = @ + 1]
    /\ UNCHANGED <<fecha_actual, meses, prog, pc, esc, chunk_size, idx, varsBucle,
                   varsPass, varsMain, varsS6, varsS5>>

\* Stage 0, lines 178-192: the task is no longer active.  In state
\* COMPLETED the file is in Google Drive and descargar_con_export returns
\* True; in any other state it prints the error and returns None.  After
\* the export of a month the for loop goes on (line 252); after that of
\* the full image main ends (lines 297-300).
S0FinExport ==
    /\ prog = "s0"
    /\ pc = "exportando"
    /\ \E estado_final \in {"COMPLETED", "FAILED", "CANCELLED"} :
          pedidos' = [pedidos EXCEPT ![Len(pedidos)].descargado = (estado_final = "COMPLETED")]
    /\ pc' = IF pedidos[Len(pedidos)].usar_export THEN "terminado" ELSE "descargando"
    /\ UNCHANGED <<fecha_actual, meses, prog, esc, chunk_size, idx, varsBucle,
                   varsPass, varsMain, varsS6, varsS5>>

\* Stage 2, lines 289-290: one call of parsear_categorias_qml.
QmlParsear ==
    /\ prog = "qml"
    /\ pc = "parsear"
    /\ \E r \in {parsear_categorias_qml(esc.items)} :
          /\ pc' = IF r.fin = "ok" THEN "retornado" ELSE "excepcion"
          /\ salida' = IF r.fin = "ok" THEN <<r.vals, r.labels, r.hex_colors>> ELSE salida
    /\ UNCHANGED <<varsS0, prog, esc, chunk_size, idx, varsBucle, varsPass, varsMain,
                   varsS6, datos_rasters, archivos_validos, nombres_validos>>

Init ==
    \/ InitS2Pass
    \/ InitMain
    \/ InitS6
    \/ InitS5
    \/ InitS9
    \/ InitS3
    \/ InitS0
    \/ InitQml

Next ==
    \/ S2Ventana
    \/ S2Finalizar
    \/ MainMesInvierno
    \/ MainFinInvierno
    \/ MainMesVerano
    \/ MainGuardar
    \/ S6Ventana
    \/ S6Descripciones
    \/ S5Referencia
    \/ S5Leer
    \/ S5Combinar
    \/ S9Verificar
    \/ S9Parametros
    \/ S9Combinar
    \/ S3Cargar
    \/ S3Graficar
    \/ S3Mostrar
    \/ S0Enumerar
    \/ S0FinEnumerar
    \/ S0Descargar
    \/ S0Completa
    \/ S0Esperar
    \/ S0FinExport
    \/ QmlParsear

Spec == Init /\ [][Next]_vars

\* ------------------------------------------------------------ properties
\* The run is a window loop: one pass of stage 2 or the loop of stage 6.
EnBucle == prog \in {"s2pass", "s6"}

\* Height and width of the reference raster of the loop.
Alto == IF prog = "s2pass" THEN Len(esc.inta) ELSE Len(esc.ref.bandas[1])

Ancho == IF prog = "s2pass" THEN Len(esc.inta[1]) ELSE Len(esc.ref.bandas[1][1])

BucleTerminado == EnBucle /\ pc # "ventanas"

\* The pixels (row, col) of a window, 0-based.
Pixeles(v) ==
    {<<r, c>> : r \in v.row_start..(v.row_end - 1), c \in v.col_start..(v.col_end - 1)}

Grilla == (0..(Alto - 1)) \X (0..(Ancho - 1))

\* ceil(n / d) for n >= 1 and d >= 1, from its definition.
Techo(n, d) == CHOOSE q \in 1..n : q * d >= n /\ (q - 1) * d < n

\* C1: the windows produced by the two nested loops are pairwise disjoint,
\* lie in the grid [0, height) x [0, width) and, once the loop is over,
\* cover every pixel of it; the blocks written to one band of the stage-6
\* output are pairwise disjoint.
C1_ParticionExacta ==
    EnBucle =>
        /\ \A k1, k2 \in 1..Len(visitas) :
               k1 # k2 => Pixeles(visitas[k1]) \cap Pixeles(visitas[k2]) = {}
        /\ \A k \in 1..Len(visitas) : Pixeles(visitas[k]) \subseteq Grilla
        /\ BucleTerminado =>
               UNION {Pixeles(visitas[k]) : k \in 1..Len(visitas)} = Grilla
        /\ \A d1, d2 \in 1..Len(dst) :
               (d1 # d2 /\ dst[d1].banda = dst[d2].banda)
                   => Pixeles(dst[d1].b) \cap Pixeles(dst[d2].b) = {}

\* A pass over a 3 x 3 raster in windows of 2 x 2 has ended: four windows,
\* three of them truncated.
C1_Testigo ==
    /\ prog = "s2pass"
    /\ pc = "retornado"
    /\ Alto = 3
    /\ Ancho = 3
    /\ chunk_size = 2
    /\ Len(visitas) = 4

\* C2: the loop visits ceil(height/chunk_size) * ceil(width/chunk_size)
\* windows, the k-th being window (i, j) of the row-major order; each window
\* starts at (i * chunk_size, j * chunk_size), is at most chunk_size by
\* chunk_size, and the windows of the last chunk row and chunk column end
\* at height and width.
C2_VentanasEnOrden ==
    EnBucle =>
        /\ BucleTerminado =>
               Len(visitas) = Techo(Alto, chunk_size) * Techo(Ancho, chunk_size)
        /\ \A k \in 1..Len(visitas) :
               /\ visitas[k].i = (k - 1) \div Techo(Ancho, chunk_size)
               /\ visitas[k].j = (k - 1) % Techo(Ancho, chunk_size)
               /\ visitas[k].i < Techo(Alto, chunk_size)
               /\ visitas[k].row_start = visitas[k].i * chunk_size
               /\ visitas[k].col_start = visitas[k].j * chunk_size
               /\ visitas[k].row_end - visitas[k].row_start \in 1..chunk_size
               /\ visitas[k].col_end - visitas[k].col_start \in 1..chunk_size
               /\ visitas[k].i = Techo(Alto, chunk_size) - 1 => visitas[k].row_end = Alto
               /\ visitas[k].i < Techo(Alto, chunk_size) - 1
                      => visitas[k].row_end = visitas[k].row_start + chunk_size
               /\ visitas[k].j = Techo(Ancho, chunk_size) - 1 => visitas[k].col_end = Ancho
               /\ visitas[k].j < Techo(Ancho, chunk_size) - 1
                      => visitas[k].col_end = visitas[k].col_start + chunk_size

\* The loop of stage 6 over a 3 x 2 raster in windows of 2 x 2 is over: the
\* second window is the truncated window (1, 0).
C2_Testigo ==
    /\ prog = "s6"
    /\ pc = "fin_bucle"
    /\ Alto = 3
    /\ Ancho = 2
    /\ chunk_size = 2
    /\ Len(visitas) = 2
    /\ visitas[2].i = 1
    /\ visitas[2].row_end - visitas[2].row_start = 1

\* The ways a window can end.
EstadosTerminales == {"procesada", "escrita", "saltada", "error_reproyeccion", "error"}

\* What holds of the windows visited so far in every state of a loop.
UnaVisitaPorVentana ==
    EnBucle =>
        /\ pc \in {"ventanas", "fin_bucle", "retornado", "terminado"}
        /\ pbar = Len(visitas)
        /\ Len(visitas) <= Techo(Alto, chunk_size) * Techo(Ancho, chunk_size)
        /\ \A k \in 1..Len(visitas) :
               /\ visitas[k].estado \in EstadosTerminales
               /\ visitas[k].log <=> visitas[k].estado \in {"error_reproyeccion", "error"}
        /\ \A k1, k2 \in 1..Len(visitas) :
               k1 # k2 => <<visitas[k1].i, visitas[k1].j>> # <<visitas[k2].i, visitas[k2].j>>
        /\ BucleTerminado =>
               Len(visitas) = Techo(Alto, chunk_size) * Techo(Ancho, chunk_size)

\* What a step of a loop does whether or not the window failed: a step at
\* the loop visits one more window and stays in the loop or, after the last
\* window, leaves it; the step after the loop returns the means (stage 2)
\* or sets the descriptions (stage 6).
PasoDeBucle ==
    /\ (EnBucle /\ pc = "ventanas") =>
           /\ Len(visitas') = Len(visitas) + 1
           /\ pc' = IF Len(visitas') = Techo(Alto, chunk_size) * Techo(Ancho, chunk_size)
                    THEN "fin_bucle" ELSE "ventanas"
    /\ (EnBucle /\ pc = "fin_bucle") =>
           pc' = IF prog = "s2pass" THEN "retornado" ELSE "terminado"

\* C3: a failure in a window is caught in the loop: every window of the
\* partition is visited once and ends in one terminal state, a logged error
\* being a skipped window, and whatever windows failed every step advances
\* the loop to its last window, after which the pass returns (stage 2) or
\* the descriptions are set (stage 6).
C3_FalloDeVentanaNoAborta ==
    /\ []UnaVisitaPorVentana
    /\ [][PasoDeBucle]_vars

\* A pass has returned although a window before the last one raised, and
\* the window after it was processed.
C3_Testigo ==
    /\ prog = "s2pass"
    /\ pc = "retornado"
    /\ fallos = 1
    /\ \E k \in 1..(Len(visitas) - 1) :
           /\ visitas[k].estado = "error"
           /\ visitas[k + 1].estado = "procesada"

\* The months of main's file list gone through in a season's series.
MesesRegistrados(series) ==
    \A cat \in DOMAIN series :
        /\ Len(series[cat]) = Len(esc.ndvi_files)
        /\ \A k \in 1..Len(esc.ndvi_files) :
               ~esc.ndvi_files[k].legible => series[cat][k] = NaNF

\* C4: in main a month whose pass raises is recorded as NaN for every valid
\* category and does not stop main: main is always in one of its two month
\* loops or has saved, and when it has ended both seasons hold one value
\* per month, NaN for the months that raised.
C4_MesFallidoNoDetiene ==
    prog = "s2main" =>
        /\ pc \in {"invierno", "verano", "terminado"}
        /\ pc = "terminado" =>
               /\ guardado # <<>>
               /\ MesesRegistrados(ndvi_por_categoria_inv)
               /\ MesesRegistrados(ndvi_por_categoria_ver)

\* The categories the pass is asked for: in categorias and not excluded.
Pedidas(e) == SeqToSet(e.categorias) \ SeqToSet(e.exclude)

Posiciones(grid) == (1..Len(grid)) \X (1..Len(grid[1]))

\* The pixels of two co-registered rasters that carry the code cat and a
\* valid NDVI value.
PixelesValidos(e, cat) ==
    {q \in Posiciones(e.inta) :
        /\ e.inta[q[1]][q[2]] = cat
        /\ e.ndvi[q[1]][q[2]] # NaN
        /\ (e.nodata = <<>> \/ e.ndvi[q[1]][q[2]] # e.nodata[1])}

\* No pixel of the raster pair can give a sample to cat: no pixel carries
\* the code or, for co-registered rasters, none that does is valid.
SinPixelValido(e, cat) ==
    IF necesita_reproyeccion(e)
    THEN \A q \in Posiciones(e.inta) : e.inta[q[1]][q[2]] # cat
    ELSE PixelesValidos(e, cat) = {}

\* C5 as stated: a requested category without any valid pixel is in the
\* mapping the pass returns, with the value NaN.
C5_SinMuestrasEsNaN ==
    (prog = "s2pass" /\ pc = "retornado") =>
        \A cat \in Pedidas(esc) :
            SinPixelValido(esc, cat) => (cat \in DOMAIN promedios /\ promedios[cat] = NaNF)

\* The value main records for a category in month m of a season: the
\* entries of the series that the month appended, one for every time the
\* code comes in categorias.
SinMuestrasEnMain(inta, categorias, series) ==
    \A cat \in DOMAIN series :
        \A k \in 1..Len(series[cat]) :
            LET veces == Cardinality({n \in 1..Len(categorias) : categorias[n] = cat})
                m == ((k - 1) \div veces) + 1
            IN  (/\ esc.ndvi_files[m].legible
                 /\ SinPixelValido(EscMes(inta, esc.ndvi_files[m], categorias), cat))
                    => series[cat][k] = NaNF

\* C5, amended: a requested category without any valid pixel is absent from
\* the mapping the pass returns; the mapping holds NaN only for a category
\* that has samples and whose key a failed window left empty (tolist of
\* line 255 raised); the pass returns without raising, and main records NaN
\* for the category through promedios.get(cat, nan).
C5_SinMuestrasAusente ==
    /\ (prog = "s2pass" /\ pc = "retornado") =>
           /\ \A cat \in Pedidas(esc) : SinPixelValido(esc, cat) => cat \notin DOMAIN promedios
           /\ \A cat \in DOMAIN promedios :
                  promedios[cat] = NaNF =>
                      /\ ~SinPixelValido(esc, cat)
                      /\ \E k \in 1..Len(visitas) : visitas[k].estado = "error"
    /\ prog = "s2main" =>
           /\ SinMuestrasEnMain(esc.inta_inv, CategoriasValidas(esc.vals_inv),
                                ndvi_por_categoria_inv)
           /\ SinMuestrasEnMain(esc.inta_ver, CategoriasValidas(esc.vals_ver),
                                ndvi_por_categoria_ver)

\* A pass has returned means for some categories and a requested category
\* whose pixels all carry NaN or nodata is not among them.
C5_Testigo ==
    /\ prog = "s2pass"
    /\ pc = "retornado"
    /\ promedios # Vacio
    /\ \E cat \in Pedidas(esc) :
           /\ \E q \in Posiciones(esc.inta) : esc.inta[q[1]][q[2]] = cat
           /\ SinPixelValido(esc, cat)
           /\ cat \notin DOMAIN promedios

\* The number of pixels of the INTA raster that carry the code cat.
PixelesDe(grid, cat) == Cardinality({q \in Posiciones(grid) : grid[q[1]][q[2]] = cat})

\* C6: the accumulator and the returned mapping have keys only among the
\* requested categories (in categorias, not in exclude_values), a category
\* never has more samples than pixels carry its code, and the series of
\* main have no excluded code as a key.
C6_SoloCategoriasPedidas ==
    /\ prog = "s2pass" =>
           /\ DOMAIN resultados \subseteq Pedidas(esc)
           /\ DOMAIN promedios \subseteq Pedidas(esc)
           /\ \A cat \in DOMAIN resultados :
                  Len(resultados[cat]) <= PixelesDe(esc.inta, cat)
    /\ prog = "s2main" =>
           /\ \A x \in SeqToSet(EXCLUDE_VALUES) :
                  x \notin DOMAIN ndvi_por_categoria_inv \cup DOMAIN ndvi_por_categoria_ver
           /\ DOMAIN ndvi_por_categoria_inv \subseteq SeqToSet(esc.vals_inv)
           /\ DOMAIN ndvi_por_categoria_ver \subseteq SeqToSet(esc.vals_ver)

\* A pass over co-registered rasters has returned means although valid
\* NDVI pixels carry an excluded code and a code that is in no category
\* list.
C6_Testigo ==
    /\ prog = "s2pass"
    /\ pc = "retornado"
    /\ ~necesita_reproyeccion(esc)
    /\ promedios # Vacio
    /\ \E x \in SeqToSet(esc.exclude) : PixelesValidos(esc, x) # {}
    /\ PixelesValidos(esc, 7) # {}

\* C7: every sample of the accumulator is not NaN and, when the NDVI raster
\* declares a nodata value, differs from it; the one validity mask of a
\* window serves every category, so that after a pass over co-registered
\* rasters in which no window failed each category has as many samples as
\* valid pixels.
C7_MuestrasValidas ==
    prog = "s2pass" =>
        /\ \A cat \in DOMAIN resultados :
               \A k \in 1..Len(resultados[cat]) :
                   /\ resultados[cat][k] # NaN
                   /\ esc.nodata # <<>> => resultados[cat][k] # esc.nodata[1]
        /\ (pc = "retornado" /\ fallos = 0 /\ ~necesita_reproyeccion(esc)) =>
               \A cat \in DOMAIN resultados :
                   Len(resultados[cat]) = Cardinality(PixelesValidos(esc, cat))

\* A pass has accumulated samples from a raster with a nodata value in
\* which requested categories have a NaN pixel and a nodata pixel.
C7_Testigo ==
    /\ prog = "s2pass"
    /\ pc = "retornado"
    /\ ~necesita_reproyeccion(esc)
    /\ esc.nodata # <<>>
    /\ resultados # Vacio
    /\ \E q \in Posiciones(esc.inta) :
           /\ esc.inta[q[1]][q[2]] \in Pedidas(esc)
           /\ esc.ndvi[q[1]][q[2]] = esc.nodata[1]
    /\ \E q \in Posiciones(esc.inta) :
           /\ esc.inta[q[1]][q[2]] \in Pedidas(esc)
           /\ esc.ndvi[q[1]][q[2]] = NaN

\* The sum of the NDVI raster over a set of pixels.
RECURSIVE SumaSobre(_, _)
SumaSobre(grid, S) ==
    IF S = {} THEN 0
    ELSE LET q == CHOOSE x \in S : TRUE
         IN  grid[q[1]][q[2]] + SumaSobre(grid, S \ {q})

\* C8: after a pass over co-registered rasters in which no window failed
\* the mapping has exactly the requested categories with a valid pixel,
\* each with the mean of the NDVI raster over its valid pixels of the whole
\* raster; in the 4 x 4 scenario 1, 2 and 3 map to 0.5 (5 tenths), code 1
\* with 3 samples, and 0 has no entry.
C8_MediaPorCategoria ==
    (prog = "s2pass" /\ pc = "retornado" /\ fallos = 0 /\ ~necesita_reproyeccion(esc)) =>
        /\ DOMAIN promedios = {cat \in Pedidas(esc) : PixelesValidos(esc, cat) # {}}
        /\ \A cat \in DOMAIN promedios :
               promedios[cat] = Frac(SumaSobre(esc.ndvi, PixelesValidos(esc, cat)),
                                     Cardinality(PixelesValidos(esc, cat)))
        /\ esc = EscA =>
               /\ promedios = (1 :> <<5, 1>> @@ 2 :> <<5, 1>> @@ 3 :> <<5, 1>>)
               /\ Len(resultados[1]) = 3
               /\ 0 \notin DOMAIN promedios

\* The pass over the 4 x 4 scenario in windows of 3 x 3 has returned.
C8_Testigo ==
    /\ prog = "s2pass"
    /\ pc = "retornado"
    /\ esc = EscA
    /\ chunk_size = 3
    /\ fallos = 0
    /\ Len(visitas) = 4

\* The extent of a reference raster of h x w pixels, mapped to a source
\* raster of sh x sw pixels, has no pixel in common with it.
SinSolape(ref_tr, ref_crs, h, w, src_tr, src_crs, sh, sw) ==
    ~intersect(round_offsets(round_lengths(
                   from_bounds(transform_bounds(ref_crs, src_crs,
                                   WindowBounds(Window(0, 0, w, h), ref_tr)), src_tr))),
               Window(0, 0, sw, sh))

\* C9: a window whose source window lies entirely outside the source raster
\* does not raise: in stage 6 the window is written, with a block of zeros
\* for that source, and in stage 2 the window is skipped without an error.
C9_FueraDeLaFuenteNoFalla ==
    /\ (/\ prog = "s6"
        /\ fallos = 0
        /\ SinSolape(esc.ref.tr, esc.ref.crs, Alto, Ancho, esc.inv.tr, esc.inv.crs,
                     Len(esc.inv.grid), Len(esc.inv.grid[1]))) =>
           \A k \in 1..Len(visitas) :
               /\ visitas[k].estado = "escrita"
               /\ \E d \in 1..Len(dst) :
                      /\ dst[d].banda = Len(esc.ref.bandas) + 1
                      /\ Pixeles(dst[d].b) = Pixeles(visitas[k])
                      /\ \A r \in 1..Len(dst[d].data) :
                             \A c \in 1..Len(dst[d].data[r]) : dst[d].data[r][c] = 0
    /\ (/\ prog = "s2pass"
        /\ fallos = 0
        /\ necesita_reproyeccion(esc)
        /\ SinSolape(esc.inta_tr, esc.inta_crs, Alto, Ancho, esc.ndvi_tr, esc.ndvi_crs,
                     Len(esc.ndvi), Len(esc.ndvi[1]))) =>
           \A k \in 1..Len(visitas) :
               /\ visitas[k].estado = "saltada"
               /\ ~visitas[k].log

\* The files of stage 5 that can be read, in the order of their names.
Leidos == SelectSeq(Sorted(esc.glob), LAMBDA a : a.legible)

\* C10: the output of stage 5 has N + 4 bands for the N rasters read: the
\* median, minimum, maximum and standard deviation of the stack, named
\* mediana, min, max and sd, then the N rasters in the sorted order of
\* their files, each named NDVI_<period> after the file its data come from.
C10_BandasDeSalida ==
    (prog = "s5" /\ pc = "terminado") =>
        /\ Len(salida) = Len(Leidos) + 4
        /\ Len(datos_rasters) = Len(Leidos)
        /\ salida[1] = [data |-> Reducir("nanmedian", datos_rasters), description |-> <<"mediana">>]
        /\ salida[2] = [data |-> Reducir("nanmin", datos_rasters), description |-> <<"min">>]
        /\ salida[3] = [data |-> Reducir("nanmax", datos_rasters), description |-> <<"max">>]
        /\ salida[4] = [data |-> Reducir("nanstd", datos_rasters), description |-> <<"sd">>]
        /\ \A k \in 1..Len(Leidos) :
               /\ salida[4 + k].description = <<"NDVI_", Leidos[k].basename[2]>>
               /\ salida[4 + k].data =
                      NodataANaN(Leidos[k].grid, Sorted(esc.glob)[1].nodata, Leidos[k].nodata)
               /\ k > 1 => Orden(Leidos[k - 1].basename[2]) < Orden(Leidos[k].basename[2])

\* Stage 5 has written its output from three files of which the second
\* could not be read: six bands, whose minimum and median differ.
C10_Testigo ==
    /\ prog = "s5"
    /\ pc = "terminado"
    /\ Cardinality(esc.glob) = 3
    /\ Len(salida) = 6
    /\ salida[1].data # salida[2].data


\* Two rasters have the same grid geometry: transform, CRS, width and height.
MismaGeometria(a_tr, a_crs, a_grid, b_tr, b_crs, b_grid) ==
    /\ a_tr = b_tr
    /\ a_crs = b_crs
    /\ Len(a_grid) = Len(b_grid)
    /\ Len(a_grid[1]) = Len(b_grid[1])

\* C11: a band-stacking stage (5 or 9) that has written its output raster
\* stacked only members with the transform, CRS, width and height of the
\* first/reference raster: a member that differs in any of them stops the
\* stage before anything is written.
C11_GeometriaVerificada ==
    /\ (prog = "s5" /\ salida # <<>>) =>
            \A k \in 1..Len(Leidos) :
                MismaGeometria(Leidos[k].tr, Leidos[k].crs, Leidos[k].grid,
                               Leidos[1].tr, Leidos[1].crs, Leidos[1].grid)
    /\ (prog = "s9" /\ salida # <<>>) =>
            \A m \in {esc.inv[1], esc.ver[1]} :
                MismaGeometria(m.tr, m.crs, m.grid,
                               esc.ndvi[1].tr, esc.ndvi[1].crs, esc.ndvi[1].bandas[1])


\* Stage 5: the value of pixel (r, c) of the k-th file read is missing: it
\* is NaN or the nodata value that applies (the one of the first file, or
\* the file's own when the first has none).
Falta(k, r, c) ==
    LET nd == IF Leidos[1].nodata # <<>> THEN Leidos[1].nodata ELSE Leidos[k].nodata
    IN  \/ IsNaN(Leidos[k].grid[r][c])
        \/ (nd # <<>> /\ Leidos[k].grid[r][c] = nd[1])

Presentes(r, c) == {k \in 1..Len(Leidos) : ~Falta(k, r, c)}

\* The sum over the files K of the e-th power (e = 1 or 2) of pixel (r, c).
RECURSIVE SumaBandas(_, _, _, _)
SumaBandas(K, r, c, e) ==
    IF K = {} THEN 0
    ELSE LET k == CHOOSE x \in K : TRUE
             v == Leidos[k].grid[r][c]
         IN  (IF e = 2 THEN v * v ELSE v) + SumaBandas(K \ {k}, r, c, e)

\* A band of whole numbers as the reducers give it.
Entera(grid) == [r \in 1..Len(grid) |-> [c \in 1..Len(grid[1]) |-> Frac(grid[r][c], 1)]]

\* C12: the statistic bands of stage 5 are computed pixel by pixel over the
\* values that are neither NaN nor the nodata value: all four are NaN where
\* no value is present; else the minimum and the maximum are the least and
\* the greatest present value, the median is a present value or the
\* midpoint of two with at most half of the values on either side, and the
\* standard deviation is the population one (its square times n * n is
\* n * sum(v * v) - sum(v) * sum(v)). For the stack [[1,2],[3,4]],
\* [[NaN,2],[3,6]] the bands are [[1,2],[3,5]], [[1,2],[3,4]],
\* [[1,2],[3,6]] and [[0,0],[0,1]].
C12_Reductores ==
    (prog = "s5" /\ pc = "terminado") =>
        /\ \A r \in 1..Len(Leidos[1].grid) : \A c \in 1..Len(Leidos[1].grid[1]) :
              LET K == Presentes(r, c)
                  n == Cardinality(K)
                  V == {Leidos[k].grid[r][c] : k \in K}
                  med == salida[1].data[r][c]
                  mn == salida[2].data[r][c]
                  mx == salida[3].data[r][c]
                  sd == salida[4].data[r][c]
                  nvar == n * SumaBandas(K, r, c, 2) - SumaBandas(K, r, c, 1) * SumaBandas(K, r, c, 1)
              IN  IF K = {}
                  THEN med = NaNF /\ mn = NaNF /\ mx = NaNF /\ sd = NaNF
                  ELSE /\ mn[2] = 1 /\ mn[1] \in V /\ \A v \in V : mn[1] <= v
                       /\ mx[2] = 1 /\ mx[1] \in V /\ \A v \in V : mx[1] >= v
                       /\ med[2] > 0
                       /\ \E a \in V : \E b \in V : 2 * med[1] = (a + b) * med[2]
                       /\ 2 * Cardinality({k \in K : Leidos[k].grid[r][c] * med[2] < med[1]}) <= n
                       /\ 2 * Cardinality({k \in K : Leidos[k].grid[r][c] * med[2] > med[1]}) <= n
                       /\ IF Len(sd) = 2
                          THEN sd[1] >= 0 /\ sd[2] > 0 /\ sd[1] * sd[1] * n * n = sd[2] * sd[2] * nvar
                          ELSE sd[2] > 0 /\ sd[1] * n * n = sd[2] * nvar
        /\ esc.glob \in {ArchivosEjemplo(NaN, <<>>), ArchivosEjemplo(-99, <<-99>>)} =>
              /\ salida[1].data = Entera(<< <<1, 2>>, <<3, 5>> >>)
              /\ salida[2].data = Entera(<< <<1, 2>>, <<3, 4>> >>)
              /\ salida[3].data = Entera(<< <<1, 2>>, <<3, 6>> >>)
              /\ salida[4].data = Entera(<< <<0, 0>>, <<0, 1>> >>)

\* Stage 5 has reduced the stack of the example, its missing pixel given
\* as the nodata value: the median of 4 and 6 is 5, their deviation 1.
C12_Testigo ==
    /\ prog = "s5"
    /\ pc = "terminado"
    /\ esc.glob = ArchivosEjemplo(-99, <<-99>>)
    /\ salida[1].data[2][2] = <<5, 1>>
    /\ salida[4].data[2][2] = <<1, 1>>
    /\ salida[2].data[1][1] = <<1, 1>>


\* A script has ended: by exit(1) after a printed diagnostic ("exit1"), by
\* an uncaught exception ("abortado") or after its summary ("terminado").
Finalizado == pc \in {"exit1", "abortado", "terminado"}

\* The preconditions of stage 9: the three files exist and the recortes
\* have the width, height and CRS of the NDVI combinado.
PrecondicionesS9 ==
    /\ esc.ndvi # <<>> /\ esc.inv # <<>> /\ esc.ver # <<>>
    /\ \A m \in {esc.inv[1], esc.ver[1]} :
          /\ Len(m.grid) = Len(esc.ndvi[1].bandas[1])
          /\ Len(m.grid[1]) = Len(esc.ndvi[1].bandas[1][1])
          /\ m.crs = esc.ndvi[1].crs

\* C13: a stage whose precondition fails (a required file is missing, a
\* recorte differs from the NDVI combinado in width, height or CRS) ends
\* by exit(1) after its diagnostic, without output; a stage whose
\* preconditions hold ends after its summary, with its output written.
C13_PrecondicionODiagnostico ==
    /\ (prog = "s9" /\ Finalizado) =>
            IF PrecondicionesS9 THEN pc = "terminado" /\ salida # <<>>
            ELSE pc = "exit1" /\ salida = <<>>
    /\ (prog = "s3" /\ Finalizado) =>
            /\ ~esc.pkl => (pc = "exit1" /\ salida = <<>>)
            /\ (esc.pkl /\ esc.qml) => (pc = "terminado" /\ salida # <<>>)
            /\ ~esc.qml => salida = <<>>


\* C14: once main is out of the month loop of a season, whether every
\* month succeeded or some failed, every valid category of that season
\* has a series with one entry per NDVI file, the k-th a mean or NaN.
C14_SeriesCompletas ==
    prog = "s2main" =>
        /\ pc \in {"verano", "terminado", "abortado"} =>
              \A cat \in DOMAIN ndvi_por_categoria_inv :
                  /\ Len(ndvi_por_categoria_inv[cat]) = Len(esc.ndvi_files)
                  /\ \A k \in 1..Len(ndvi_por_categoria_inv[cat]) :
                        Len(ndvi_por_categoria_inv[cat][k]) = 2
        /\ pc = "terminado" =>
              \A cat \in DOMAIN ndvi_por_categoria_ver :
                  /\ Len(ndvi_por_categoria_ver[cat]) = Len(esc.ndvi_files)
                  /\ \A k \in 1..Len(ndvi_por_categoria_ver[cat]) :
                        Len(ndvi_por_categoria_ver[cat][k]) = 2


\* C15: the month enumeration of stage 0 ends and gives exactly 12 periods,
\* first days of consecutive months from June 2023 to June 2024; when the
\* download loop ends every period has been asked for once, in order,
\* whatever periods failed, each file asked for being named
\* NDVI_YYYY-MM.tif after its period.
C15_DocePeriodos ==
    prog = "s0" =>
        /\ pc \in {"descargando", "exportando", "terminado"} =>
              /\ Len(meses) = 12
              /\ meses[1] = <<2023, 6, 1>>
              /\ meses[Len(meses)] = <<2024, 6, 1>>
              /\ \A k \in 1..(Len(meses) - 1) :
                    12 * meses[k + 1][1] + meses[k + 1][2] = 12 * meses[k][1] + meses[k][2] + 1
        /\ pc = "terminado" =>
              /\ Len(pedidos) = Len(meses) + 1
              /\ \A k \in 1..Len(meses) :
                    /\ pedidos[k].fecha = meses[k]
                    /\ pedidos[k].nombre_archivo \in
                          {<<>>, <<"NDVI_", meses[k][1], "-", meses[k][2] \div 10,
                                   meses[k][2] % 10, ".tif">>}


\* The pixel window of a visited window of the loop.
VentanaDeVisita(v) ==
    Window(v.col_start, v.row_start, v.col_end - v.col_start, v.row_end - v.row_start)

\* C16 for stage 2: the NDVI raster has the CRS and the transform of the
\* INTA raster (and another size): the window located in it from the bounds
\* of a reference window w is w.
IdaYVueltaS2 ==
    (/\ prog = "s2pass"
     /\ necesita_reproyeccion(esc)
     /\ esc.inta_crs = esc.ndvi_crs
     /\ esc.inta_tr = esc.ndvi_tr) =>
        \A k \in 1..Len(visitas) :
            InsideGrid(VentanaDeVisita(visitas[k]), Len(esc.ndvi), Len(esc.ndvi[1])) =>
                NdviWindow(esc,
                           transform_bounds(esc.inta_crs, esc.ndvi_crs,
                                            WindowBounds(VentanaDeVisita(visitas[k]), esc.inta_tr)),
                           SinFallo)
                    = [fin |-> "ok", window |-> VentanaDeVisita(visitas[k])]

\* C16 for stage 6: the winter MNC raster has the CRS and the transform of
\* the reference raster: the window located in it from the bounds of a
\* reference window w is w.
IdaYVueltaS6 ==
    (/\ prog = "s6"
     /\ esc.ref.crs = esc.inv.crs
     /\ esc.ref.tr = esc.inv.tr) =>
        \A k \in 1..Len(visitas) :
            InsideGrid(VentanaDeVisita(visitas[k]), Len(esc.inv.grid), Len(esc.inv.grid[1])) =>
                MncWindow(esc.ref, esc.inv, WindowBounds(VentanaDeVisita(visitas[k]), esc.ref.tr))
                    = VentanaDeVisita(visitas[k])

\* C16: with one CRS and one transform T, the bounds of a pixel window w
\* inside the grid, taken back to a window (transform_bounds, from_bounds,
\* round_lengths, round_offsets, clip to the grid), give exactly w, in
\* stage 2 and in stage 6.
C16_IdaYVuelta == IdaYVueltaS2 /\ IdaYVueltaS6


\* The windows inside a grid, the empty one included.
SubVentanas(grid) ==
    {Window(0, 0, 0, 0)}
    \cup {Window(co, ro, wd, ht) :
            co \in 0..(Len(grid[1]) - 1), ro \in 0..(Len(grid) - 1),
            wd \in 1..Len(grid[1]), ht \in 1..Len(grid)}

\* The MNC block of source window w2 resampled, with the nearest kernel of
\* lines 194 and 233, to the reference window visited last.
Remuestreado(mnc, w2) ==
    MncResample(esc.ref, mnc,
                WindowBounds(VentanaDeVisita(visitas[Len(visitas)]), esc.ref.tr),
                visitas[Len(visitas)].row_end - visitas[Len(visitas)].row_start,
                visitas[Len(visitas)].col_end - visitas[Len(visitas)].col_start,
                w2, SinFallo)

\* The values of a raster that are not NaN.
ValoresDe(grid) == {v \in SeqToSet(Flatten(grid)) : ~IsNaN(v)}

\* C17 for stage 2: the NDVI block of a window that is reprojected is
\* interpolated with the bilinear kernel of line 225.  Every sample lies
\* between the least and the greatest value of the NDVI raster and the fill
\* 0; and in the pass over the rasters "fino" in one window, where the
\* centres of the three INTA columns lie at 1/4, 3/4 and 5/4 of an NDVI
\* pixel from the left edge of the NDVI pixels 3 and 7, the block is 3,
\* 3 + (7 - 3) / 4 = 4 and 3 + 3 (7 - 3) / 4 = 6 in both rows, which gives
\* code 1 (first pixel of row 1, last of row 2) the samples 3 and 6 and
\* code 2 (last pixel of row 1) the sample 6; the nearest kernel would give
\* them 3 and 7, and 7.
NdviBilineal ==
    (prog = "s2pass" /\ necesita_reproyeccion(esc)) =>
        /\ \A cat \in DOMAIN resultados :
              \A n \in 1..Len(resultados[cat]) :
                 /\ \E v \in ValoresDe(esc.ndvi) \cup {0} : v <= resultados[cat][n]
                 /\ \E v \in ValoresDe(esc.ndvi) \cup {0} : resultados[cat][n] <= v
        /\ (/\ esc \in {EscGeo("fino", nd) : nd \in Nodatas}
            /\ chunk_size >= 3
            /\ fallos = 0
            /\ pc \in {"fin_bucle", "retornado"}) =>
                resultados = (1 :> <<3, 6>> @@ 2 :> <<6>>)

\* C17 for stage 6: each of the two MNC rasters gives every window of the
\* reference raster a block resampled with the nearest kernel of lines 194
\* and 233, whose values are codes of that MNC raster or the fill 0.
MncVecinoMasCercano ==
    prog = "s6" =>
        \A k \in 1..Len(visitas) :
            (VentanaDeVisita(visitas[k]).width > 0 /\ VentanaDeVisita(visitas[k]).height > 0) =>
                \A mnc \in {esc.inv, esc.ver} :
                    \E blk \in {MncChunk(esc.ref, mnc,
                                         WindowBounds(VentanaDeVisita(visitas[k]), esc.ref.tr),
                                         VentanaDeVisita(visitas[k]).height,
                                         VentanaDeVisita(visitas[k]).width, SinFallo)} :
                        /\ blk.fin = "ok"
                        /\ SeqToSet(Flatten(blk.chunk))
                              \subseteq SeqToSet(Flatten(mnc.grid)) \cup {0}

BloqueFuente(v) ==
    WindowBounds(NdviWindow(esc,
                            transform_bounds(esc.inta_crs, esc.ndvi_crs,
                                             WindowBounds(VentanaDeVisita(v), esc.inta_tr)),
                            SinFallo).window,
                 esc.ndvi_tr)

\* The centre of pixel q of the INTA raster lies in the bounds b of the
\* CRS of the NDVI raster (coordinates doubled).
CentroEn(q, b) ==
    LET x2 == 2 * esc.inta_tr.c + esc.inta_tr.a * (2 * q[2] - 1)
                + 2 * (CrsOrigin(esc.inta_crs).x - CrsOrigin(esc.ndvi_crs).x)
        y2 == 2 * esc.inta_tr.f - esc.inta_tr.a * (2 * q[1] - 1)
                + 2 * (CrsOrigin(esc.inta_crs).y - CrsOrigin(esc.ndvi_crs).y)
    IN  /\ 2 * b.left <= x2 /\ x2 < 2 * b.right
        /\ 2 * b.bottom < y2 /\ y2 <= 2 * b.top

\* The pixels of the INTA raster in a processed window of a reprojecting
\* pass whose centre is covered by the NDVI block read for that window.
Cubiertos ==
    {q \in Posiciones(esc.inta) :
        \E k \in 1..Len(visitas) :
            /\ visitas[k].estado = "procesada"
            /\ <<q[1] - 1, q[2] - 1>> \in Pixeles(visitas[k])
            /\ CentroEn(q, BloqueFuente(visitas[k]))}

\* C18: in a pass of stage 2 that reprojects, the destination pixels that
\* the reprojected NDVI block does not cover are invalid and give no
\* sample: a category has at most as many samples as pixels with its code
\* that are covered by the block read for their window.
C18_SinCoberturaInvalido ==
    (prog = "s2pass" /\ necesita_reproyeccion(esc)) =>
        \A cat \in DOMAIN resultados :
            Len(resultados[cat])
                <= Cardinality({q \in Cubiertos : esc.inta[q[1]][q[2]] = cat})


\* A step of a window loop in which the window failed: its visit is
\* appended with a log line.
PasoConFallo ==
    /\ EnBucle
    /\ Len(visitas') = Len(visitas) + 1
    /\ visitas'[Len(visitas')].log

\* Stage 6: no block written to the output lies in a failed window.
RegionFallidaIntacta ==
    prog = "s6" =>
        \A k \in 1..Len(visitas) :
            visitas[k].log =>
                \A n \in 1..Len(dst) : Pixeles(dst[n].b) \cap Pixeles(visitas[k]) = {}

\* C19: a window that fails is skipped and the job goes on: in stage 2 the
\* accumulator is left as it was (the window gives no sample to any
\* category), in stage 6 nothing is written to the output for the window
\* (its region keeps the fill of the new raster), and in both the loop
\* counts the window and moves to the next one or to its end.
C19_FalloRecuperable ==
    /\ []RegionFallidaIntacta
    /\ [][PasoConFallo =>
            /\ resultados' = resultados
            /\ dst' = dst
            /\ pbar' = pbar + 1
            /\ pc' \in {"ventanas", "fin_bucle"}]_vars


\* C20: every window of stage 2 or stage 6 that was skipped (it was
\* neither accumulated nor written) has a log line, which carries the
\* index (i, j) of the window: the k-th window visited is the one of row
\* i and column j of the window grid.
C20_TodoSaltoRegistrado ==
    EnBucle =>
        \A k \in 1..Len(visitas) :
            visitas[k].estado \notin {"procesada", "escrita"} =>
                /\ visitas[k].log
                /\ k = visitas[k].i * NChunks(Ancho, chunk_size) + visitas[k].j + 1
                /\ visitas[k].row_start = visitas[k].i * chunk_size
                /\ visitas[k].col_start = visitas[k].j * chunk_size


\* Some file of the list of stage 5 can be read.
AlgunoLegible == \E a \in esc.glob : a.legible

\* C21: stage 5 with no readable raster (no file found, or no file that
\* can be read, the first one included) ends by exit(1) after its
\* diagnostic, without output; with a raster that cannot be read among
\* others that can, the unreadable one is skipped and the stage goes on
\* to combine the others.
C21_CeroLegiblesDiagnostico ==
    (prog = "s5" /\ Finalizado) =>
        /\ ~AlgunoLegible => (pc = "exit1" /\ salida = <<>>)
        /\ AlgunoLegible =>
              /\ pc # "exit1"
              /\ pc = "abortado" => ~MismaForma(datos_rasters)
              /\ Len(datos_rasters) = Cardinality({a \in esc.glob : a.legible})


\* Lines 163-198 for a visited window of a pass without injected failure:
\* the outcome of the location of the NDVI window, which line 201 reads
\* when the outcome is "ok".
LocalizadaDe(v) ==
    NdviWindow(esc,
               transform_bounds(esc.inta_crs, esc.ndvi_crs,
                                WindowBounds(VentanaDeVisita(v), esc.inta_tr)),
               SinFallo)

\* A window of whole pixels inside a raster of the given height and width.
DentroYEntera(w, height, width) ==
    /\ InsideGrid(w, height, width)
    /\ w.off_den = 1
    /\ w.len_den = 1

\* C22: every window given to a read lies inside the raster read: the
\* reference window lies inside the reference raster, with at least one
\* row and one column, and in a pass of stage 2 in which no call failed
\* the NDVI window located from the transformed bounds is, when it is
\* read, a window of whole pixels inside the NDVI raster with at least
\* one row and one column.
C22_VentanasDentro ==
    EnBucle =>
        \A k \in 1..Len(visitas) :
            /\ DentroYEntera(VentanaDeVisita(visitas[k]), Alto, Ancho)
            /\ VentanaDeVisita(visitas[k]).width > 0
            /\ VentanaDeVisita(visitas[k]).height > 0
            /\ (prog = "s2pass" /\ necesita_reproyeccion(esc) /\ fallos = 0
                /\ LocalizadaDe(visitas[k]).fin = "ok") =>
                    /\ DentroYEntera(LocalizadaDe(visitas[k]).window,
                                     Len(esc.ndvi), Len(esc.ndvi[1]))
                    /\ LocalizadaDe(visitas[k]).window.width > 0
                    /\ LocalizadaDe(visitas[k]).window.height > 0


\* Lines 238-258 for the reference window visited last, had the winter and
\* summer MNC blocks been read from the source windows w2i and w2v and
\* resampled, and no write failed: the blocks written and the counts added.
EscritoCon(w2i, w2v) ==
    ConVerano(esc,
              RefBounds(visitas[Len(visitas)].i, visitas[Len(visitas)].j, chunk_size,
                        Alto, Ancho),
              [k \in 1..Len(esc.ref.bandas) |->
                  ReadBlock(esc.ref.bandas[k], VentanaDeVisita(visitas[Len(visitas)]))],
              BandaBinaria(Remuestreado(esc.inv, w2i).chunk, esc.inv.nodata),
              SumSeq(Flatten(BandaBinaria(Remuestreado(esc.inv, w2i).chunk, esc.inv.nodata))),
              Remuestreado(esc.ver, w2v),
              SinFallo)

\* The source windows inside the grid of an MNC raster.
VentanasFuente(mnc) ==
    {w \in SubVentanas(mnc.grid) : InsideGrid(w, Len(mnc.grid), Len(mnc.grid[1]))}

\* The season band data is 0 or 1 at every pixel, 1 exactly where the code
\* of the resampled block chunk is neither 0 nor 255 nor the nodata value.
EsBandaDe(data, chunk, nodata) ==
    /\ Len(data) = Len(chunk)
    /\ \A r \in 1..Len(chunk) :
          /\ Len(data[r]) = Len(chunk[r])
          /\ \A c \in 1..Len(chunk[r]) :
                /\ data[r][c] \in {0, 1}
                /\ data[r][c] = 1 <=>
                      /\ chunk[r][c] \notin {0, 255}
                      /\ \A n \in SeqToSet(nodata) : chunk[r][c] # n

\* The blocks written for a window are those of the claim: the bands of
\* the reference raster at their index, then the winter and summer bands
\* of the resampled blocks inv_chunk and ver_chunk.
EscritosComoSeDice(escritos, window, inv_chunk, ver_chunk) ==
    /\ Len(escritos) = Len(esc.ref.bandas) + 2
    /\ \A k \in 1..Len(escritos) : escritos[k].banda = k
    /\ \A k \in 1..Len(esc.ref.bandas) :
          escritos[k].data = ReadBlock(esc.ref.bandas[k], window)
    /\ EsBandaDe(escritos[Len(esc.ref.bandas) + 1].data, inv_chunk, esc.inv.nodata)
    /\ EsBandaDe(escritos[Len(esc.ref.bandas) + 2].data, ver_chunk, esc.ver.nodata)

\* The code of an MNC raster at every pixel of a window of the reference
\* raster: the code of the MNC pixel under the centre of the pixel, 0
\* where the MNC raster has none.
CodigoMnc(mnc, window) ==
    reproject(mnc.grid, mnc.tr, mnc.crs, window.height, window.width,
              transform_from_bounds(WindowBounds(window, esc.ref.tr),
                                    window.width, window.height),
              esc.ref.crs, "nearest")

\* The blocks written to the output for the region of visit v, in the
\* order of the writes.
EscritosEn(v) == SelectSeq(dst, LAMBDA e : Pixeles(e.b) = Pixeles(v))

ItemsConDatos == {p \in 1..Len(esc.items) : Truthy(esc.items[p].label) /\ Truthy(esc.items[p].value)}

\* A colour text "#RRGGBB".
EsColorHex(t) ==
    /\ Len(t) = 7
    /\ t[1] = Ord("#")
    /\ \A k \in 2..7 : InSeq(t[k], HexDigitos)

\* Position k of the three lists returned comes from item p of the file.
VieneDe(k, p) ==
    /\ salida[2][k] = esc.items[p].label[1]
    /\ <<salida[1][k]>> = IntFloat(esc.items[p].value[1])
    /\ esc.items[p].color = <<>> => salida[3][k] = GRIS
    /\ EsColorHex(salida[3][k])

\* The three lists have one length, the codes ascend, and there is a
\* one-to-one pairing of the positions with the items that have a label
\* and a value.
ListasEmparejadas ==
    /\ Len(salida) = 3
    /\ Len(salida[2]) = Len(salida[1])
    /\ Len(salida[3]) = Len(salida[1])
    /\ \A k \in 1..(Len(salida[1]) - 1) : salida[1][k] <= salida[1][k + 1]
    /\ \E f \in [1..Len(salida[1]) -> ItemsConDatos] :
          /\ \A k \in 1..Len(salida[1]) : VieneDe(k, f[k])
          /\ \A p \in ItemsConDatos : \E k \in 1..Len(salida[1]) : f[k] = p
          /\ \A k, m \in 1..Len(salida[1]) : f[k] = f[m] => k = m

\* C24: parsear_categorias_qml returns three lists of one length, the
\* integer codes ascending and without repetition, label and colour of a
\* position being those of the item its code came from; the items without
\* label or without value are left out, and a colour that is missing or
\* cannot be parsed is "#888888". It raises only for a value that is not
\* a number.
C24_Categorias ==
    prog = "qml" =>
        /\ pc = "excepcion" =>
              \E p \in ItemsConDatos : IntFloat(esc.items[p].value[1]) = <<>>
        /\ pc = "retornado" =>
              /\ ListasEmparejadas
              /\ \A k, m \in 1..Len(salida[1]) : k # m => salida[1][k] # salida[1][m]


\* The two rasters of a pass of stage 2 are co-registered pixel for pixel:
\* one CRS, one width, one height and one affine transform.
Corregistrados ==
    /\ esc.inta_crs = esc.ndvi_crs
    /\ Len(esc.inta[1]) = Len(esc.ndvi[1])
    /\ Len(esc.inta) = Len(esc.ndvi)
    /\ esc.inta_tr = esc.ndvi_tr

\* C25: a pass of stage 2 reads the NDVI raster through the reference
\* window, without reprojection, only when the two rasters have the same
\* CRS, width, height and affine transform; when any of the four differs
\* its windows take the locate-and-reproject path.
C25_DirectoSoloCorregistrado ==
    (prog = "s2pass" /\ visitas # <<>>) =>
        (necesita_reproyeccion(esc) <=> ~Corregistrados)


\* The number of times v occurs in the sequence s.
Cuenta(s, v) == Cardinality({k \in 1..Len(s) : s[k] = v})

\* The sequences s and t hold the same values the same number of times.
MismoMultiset(s, t) ==
    /\ Len(s) = Len(t)
    /\ \A v \in SeqToSet(s) \cup SeqToSet(t) : Cuenta(s, v) = Cuenta(t, v)

\* The accumulator of the pass over the raster pair of the run taken as a
\* single window.
UnaSolaVentana ==
    VentanaS2(esc, Max(Len(esc.inta), Len(esc.inta[1])), 0, 0, SinFallo, Vacio).resultados

\* C26: for co-registered rasters and no failing window the result of
\* procesar_ndvi_por_categoria does not depend on chunk_size: when the
\* loop is over each category has the samples of the pass over the whole
\* raster as a single window, as a multiset, and the mean returned is the
\* mean of that single window.
C26_IndependienteDeChunk ==
    (prog = "s2pass" /\ Corregistrados /\ fallos = 0) =>
        /\ pc \in {"fin_bucle", "retornado"} =>
              /\ DOMAIN resultados = DOMAIN UnaSolaVentana
              /\ \A cat \in DOMAIN resultados :
                    MismoMultiset(resultados[cat], UnaSolaVentana[cat])
        /\ pc = "retornado" => promedios = Promedios(UnaSolaVentana)

\* A pass over co-registered rasters, in more than one window and without
\* failure, has returned a category whose samples, not all equal, come
\* from two windows.
C26_Testigo ==
    /\ prog = "s2pass"
    /\ Corregistrados
    /\ fallos = 0
    /\ pc = "retornado"
    /\ \E cat \in DOMAIN resultados :
          /\ Cardinality(SeqToSet(resultados[cat])) >= 2
          /\ promedios[cat] # NaNF
          /\ \E k, m \in 1..Len(visitas) :
                /\ k # m
                /\ \E q \in Pixeles(visitas[k]) :
                      <<q[1] + 1, q[2] + 1>> \in PixelesValidos(esc, cat)
                /\ \E q \in Pixeles(visitas[m]) :
                      <<q[1] + 1, q[2] + 1>> \in PixelesValidos(esc, cat)


\* C27: in the window loops of stage 2 and stage 6 the progress counter
\* has advanced once for each window gone through, whatever way the
\* window ended (processed or written, skipped by a continue, failed in
\* the inner or in the outer handler): it never exceeds total_chunks and,
\* when the loop is over, it is n_chunks_h * n_chunks_w.
C27_ProgresoExacto ==
    EnBucle =>
        /\ pbar = Cardinality({<<visitas[k].i, visitas[k].j>> : k \in 1..Len(visitas)})
        /\ pbar = i * Techo(Ancho, chunk_size) + j
        /\ pbar <= Techo(Alto, chunk_size) * Techo(Ancho, chunk_size)
        /\ pc # "ventanas" => pbar = Techo(Alto, chunk_size) * Techo(Ancho, chunk_size)

\* The loop of stage 2 is over after a window skipped by a continue, a
\* window failed in the inner handler and a processed window.
C27_Testigo ==
    /\ prog = "s2pass"
    /\ pc = "fin_bucle"
    /\ {"saltada", "error_reproyeccion", "procesada"}
          \subseteq {visitas[k].estado : k \in 1..Len(visitas)}


\* The files of stage 5 gone through by the read loop that could be read,
\* in the order of the loop.
LeidosHasta(n) == SelectSeq(SubSeq(Sorted(esc.glob), 1, n), LAMBDA a : a.legible)

\* C28: in stage 5, whatever reads have failed, the lists datos_rasters,
\* archivos_validos and nombres_validos have one length, the number of
\* files read so far, and their position k holds the data, the file name
\* and the band name of one and the same file; the output has 4 bands more
\* than rasters read and its band 4 + k holds the data and, as its
\* description, the band name of position k.
C28_ListasAlineadas ==
    prog = "s5" =>
        /\ Len(archivos_validos) = Len(datos_rasters)
        /\ Len(nombres_validos) = Len(datos_rasters)
        /\ Len(datos_rasters) = Len(LeidosHasta(idx))
        /\ \A k \in 1..Len(datos_rasters) :
              /\ archivos_validos[k] = LeidosHasta(idx)[k].basename
              /\ nombres_validos[k] = <<"NDVI_", LeidosHasta(idx)[k].basename[2]>>
              /\ datos_rasters[k] = NodataANaN(LeidosHasta(idx)[k].grid,
                                               Sorted(esc.glob)[1].nodata,
                                               LeidosHasta(idx)[k].nodata)
        /\ salida # <<>> =>
              /\ Len(salida) = 4 + Len(datos_rasters)
              /\ \A k \in 1..Len(datos_rasters) :
                    salida[4 + k] = [data |-> datos_rasters[k],
                                     description |-> nombres_validos[k]]

\* Stage 5 has written its output after the read of the second of three
\* files failed: band 6 holds the third file under its name.
C28_Testigo ==
    /\ prog = "s5"
    /\ pc = "terminado"
    /\ Len(Sorted(esc.glob)) = 3
    /\ ~Sorted(esc.glob)[2].legible
    /\ Len(archivos_validos) = 2
    /\ archivos_validos[2] = Sorted(esc.glob)[3].basename
    /\ salida[6].description = <<"NDVI_", Sorted(esc.glob)[3].basename[2]>>


\* The bounds of a visited window, as the writes record them.
LimitesDe(v) ==
    [row_start |-> v.row_start, row_end |-> v.row_end,
     col_start |-> v.col_start, col_end |-> v.col_end]

\* The bands of dst to which a block of the visited window v was written.
BandasEscritasDe(v) == {dst[n].banda : n \in {m \in 1..Len(dst) : dst[m].b = LimitesDe(v)}}

\* The MNC block of source window w2 for the reference window visited
\* last, read and resampled with the call falla raising.
RemuestreadoCon(mnc, w2, falla) ==
    MncResample(esc.ref, mnc,
                WindowBounds(VentanaDeVisita(visitas[Len(visitas)]), esc.ref.tr),
                visitas[Len(visitas)].row_end - visitas[Len(visitas)].row_start,
                visitas[Len(visitas)].col_end - visitas[Len(visitas)].col_start,
                w2, falla)

\* The blocks of the NDVI combinado read for the window visited last.
BandasNdviChunk ==
    [k \in 1..Len(esc.ref.bandas) |->
        ReadBlock(esc.ref.bandas[k], VentanaDeVisita(visitas[Len(visitas)]))]

\* Lines 171-258 for the window visited last when the read or the
\* resampling of the winter block, taken from source window w2, raises.
FalloInvierno(w2, falla) ==
    ConInvierno(esc, LimitesDe(visitas[Len(visitas)]),
                VentanaDeVisita(visitas[Len(visitas)]), BandasNdviChunk,
                RemuestreadoCon(esc.inv, w2, falla), falla)

\* Lines 210-258 for the window visited last when the read or the
\* resampling of the summer block, taken from source window w2, raises.
FalloVerano(w2, falla) ==
    ConVerano(esc, LimitesDe(visitas[Len(visitas)]), BandasNdviChunk,
              Zeros(Len(BandasNdviChunk[1]), Len(BandasNdviChunk[1][1])), 0,
              RemuestreadoCon(esc.ver, w2, falla), falla)

\* C29: in stage 6 a failure of the read, the location or the resampling
\* of a window comes before the writes of the window: a window that failed
\* has no band written, a window that was written has all the
\* ref_count + 2 bands written, and after the loop the descriptions of all
\* the ref_count + 2 bands are set, whatever windows failed.  This holds
\* of the windows of the run and of what the loop body does for a window
\* whatever source window an MNC block is read from.
\* No window of a run reaches the writes of lines 253-258, so a write that
\* raises after earlier bands were written is no case of a run.
C29_EscrituraCompletaONada ==
    prog = "s6" =>
        /\ \A k \in 1..Len(visitas) :
              IF visitas[k].estado = "escrita"
              THEN BandasEscritasDe(visitas[k]) = 1..(Len(esc.ref.bandas) + 2)
              ELSE BandasEscritasDe(visitas[k]) = {}
        /\ pc = "terminado" => Len(descripciones) = Len(esc.ref.bandas) + 2
        /\ visitas # <<>> =>
              /\ \A falla \in {[llamada |-> l, n |-> 0] : l \in {"read_mnc", "reproject"}} :
                    /\ \A w2 \in {w \in VentanasFuente(esc.inv) : w.width > 0} :
                          /\ FalloInvierno(w2, falla).estado = "error"
                          /\ FalloInvierno(w2, falla).escritos = <<>>
                    /\ \A w2 \in {w \in VentanasFuente(esc.ver) : w.width > 0} :
                          /\ FalloVerano(w2, falla).estado = "error"
                          /\ FalloVerano(w2, falla).escritos = <<>>
              /\ \A falla \in {[llamada |-> l, n |-> 0] : l \in {"read_ndvi", "transform_bounds"}} :
                    VentanaRef(esc, LimitesDe(visitas[Len(visitas)]),
                               VentanaDeVisita(visitas[Len(visitas)]), falla).escritos = <<>>
              /\ \A w2 \in VentanasFuente(esc.inv) :
                    {EscritoCon(w2, Window(0, 0, 0, 0)).escritos[n].banda :
                        n \in 1..Len(EscritoCon(w2, Window(0, 0, 0, 0)).escritos)}
                      = 1..(Len(esc.ref.bandas) + 2)

\* Stage 6 has ended after a window failed, with a logged error, and
\* another was gone through: no band of either is in the output, the
\* descriptions of the ref_count + 2 bands are set, and a failure of the
\* resampling of the winter block of the last window leaves it unwritten.
C29_Testigo ==
    /\ prog = "s6"
    /\ pc = "terminado"
    /\ Len(visitas) >= 2
    /\ visitas[1].estado = "error"
    /\ visitas[1].log
    /\ BandasEscritasDe(visitas[1]) = {}
    /\ Len(descripciones) = Len(esc.ref.bandas) + 2
    /\ \E w2 \in VentanasFuente(esc.inv) :
          /\ w2.width > 0
          /\ RemuestreadoCon(esc.inv, w2, SinFallo).fin = "ok"
          /\ FalloInvierno(w2, [llamada |-> "reproject", n |-> 0]).escritos = <<>>


\* The number of pixels with value 1 in the blocks of the sequence
\* escritos written to band banda.
RECURSIVE UnosEscritos(_, _)
UnosEscritos(escritos, banda) ==
    IF escritos = <<>> THEN 0
    ELSE (IF Head(escritos).banda = banda
          THEN Cuenta(Flatten(Head(escritos).data), 1) ELSE 0)
         + UnosEscritos(Tail(escritos), banda)

\* The counts added for a window are the numbers of pixels with value 1
\* of the two season blocks written for it.
CuentaLoEscrito(r) ==
    /\ r.suma_inv = UnosEscritos(r.escritos, Len(esc.ref.bandas) + 1)
    /\ r.suma_ver = UnosEscritos(r.escritos, Len(esc.ref.bandas) + 2)
    /\ r.suma_inv <= Cardinality(Pixeles(visitas[Len(visitas)]))
    /\ r.suma_ver <= Cardinality(Pixeles(visitas[Len(visitas)]))

\* C30: in stage 6, and so at its end, total_pixeles_inv and
\* total_pixeles_ver are the numbers of pixels with value 1 written to the
\* bands 'invierno' and 'verano' of the output, each between 0 and
\* ref_width * ref_height, whatever windows succeeded and failed; and a
\* window that is written adds to each counter the number of pixels with
\* value 1 of the season block written for it, whatever source windows
\* the MNC blocks were read from.
\* The counters are added to before the writes (lines 244 and 251); no
\* window of a run reaches a write, so none fails after the counters grew.
C30_ContadoresExactos ==
    prog = "s6" =>
        /\ total_pixeles_inv = UnosEscritos(dst, Len(esc.ref.bandas) + 1)
        /\ total_pixeles_ver = UnosEscritos(dst, Len(esc.ref.bandas) + 2)
        /\ total_pixeles_inv \in 0..(Alto * Ancho)
        /\ total_pixeles_ver \in 0..(Alto * Ancho)
        /\ visitas # <<>> =>
              /\ \A w2i \in VentanasFuente(esc.inv) :
                    CuentaLoEscrito(EscritoCon(w2i, VentanaDeVisita(visitas[Len(visitas)])))
              /\ \A w2v \in VentanasFuente(esc.ver) :
                    CuentaLoEscrito(EscritoCon(Window(0, 0, 0, 0), w2v))

\* Stage 6 has ended with windows that failed: both counters are those of
\* the output; and the last window, had its blocks been read from a
\* window of each MNC raster, adds different counts, not zero, for its two
\* season bands.
C30_Testigo ==
    /\ prog = "s6"
    /\ pc = "terminado"
    /\ \E k \in 1..Len(visitas) : visitas[k].estado = "error"
    /\ total_pixeles_inv = UnosEscritos(dst, Len(esc.ref.bandas) + 1)
    /\ \E w2i \in VentanasFuente(esc.inv) :
          \E r \in {EscritoCon(w2i, VentanaDeVisita(visitas[Len(visitas)]))} :
             /\ r.estado = "escrita"
             /\ r.suma_inv > 0
             /\ r.suma_ver > 0
             /\ r.suma_inv # r.suma_ver

====
